---------------------------- MODULE Spec2Model ----------------------------
(***************************************************************************)
(* Model of the 3D coordinate transformation engine of the IOS camera      *)
(* service:                                                                *)
(*   SDK/Qcommon/Coordinate_conversion.py  (class CoordinateTransformer)   *)
(*   SDK/SickSDK.py                        (get_3d_coordinates,            *)
(*                                          get_z_coordinates)             *)
(*   sick/SickSDK.py                       (the continuous stream thread)  *)
(*   main.py                               (the command processor)         *)
(*                                                                         *)
(* Python values are tagged records ([t |-> "none"], [t |-> "seq", ...]),  *)
(* the outcome of a call is [kind |-> "return", val |-> ...] or            *)
(* [kind |-> "raise", exc |-> <exception class>, msg |-> <message id>].    *)
(* float64 arithmetic of the deprojection is modelled in fixed point       *)
(* (FScale units per 1.0); angles are whole degrees on a 10-degree grid.  *)
(* The calibration file is the sequence of JSON tokens json.dump writes    *)
(* and json.load parses; the least-squares solver returns a minimiser of   *)
(* the residual among Candidates.                                          *)
(*                                                                         *)
(* Specifications: SpecAngle (angle conversion), SpecDeproject (pixel,     *)
(* frame and z deprojection), Spec (calibration, one thread), SpecConc     *)
(* (the instance and its file shared between threads and programs),        *)
(* SpecTwo (two instances in one working directory), SpecWrite (a path     *)
(* whose writes can fail), SpecStream (the streaming wrapper of            *)
(* sick/SickSDK.py), SpecCommands (the command processor of main.py).      *)
(***************************************************************************)
EXTENDS Integers, Sequences, FiniteSets, TLC

VARIABLES
    transformation_matrix,  \* self.transformation_matrix of the instance
    fs,                     \* the file at self.matrix_path: content or missing
    call,                   \* the API call last made (name and arguments)
    ret,                    \* what that call returned or raised
    raised,                 \* history: the first failure and the one of this call
    threads,                \* the calls in progress when threads share the instance
    published,              \* history: the matrices the instance has held
    loaded,                 \* history: the last fit's matrix and the loads since
    other                   \* a second instance: its matrix_path, matrix and file

vars == <<transformation_matrix, fs, call, ret, raised, threads, published,
          loaded, other>>

---------------------------------------------------------------------------
(* Python values and call outcomes *)

NoneV == [t |-> "none"]

\* a numpy array holding the nested tuple v
NdArray(v) == [t |-> "ndarray", v |-> v]

Return(v) == [kind |-> "return", val |-> v]

Raise(exc, msg) == [kind |-> "raise", exc |-> exc, msg |-> msg]

NoCall == [op |-> "none"]

NoRet == [kind |-> "none"]

\* a call that did not fail for one of the causes the caller tells apart
NoFailure == [cause |-> "none"]

NoneRaised == [first |-> NoFailure, last |-> NoFailure]


\* Exception classes that `except Exception` catches (all the ones modelled).
IsException(r) == r.kind = "raise"

---------------------------------------------------------------------------
(* 4x4 matrices: a tuple of four rows of four integers *)

Eye4 == << <<1, 0, 0, 0>>, <<0, 1, 0, 0>>, <<0, 0, 1, 0>>, <<0, 0, 0, 1>> >>

\* transformation_matrix[:3, :3]
RotationBlock(m) == [i \in 1..3 |-> [j \in 1..3 |-> m[i][j]]]

\* np.dot of a 3x3 matrix and a 3-vector
Dot3(r, v) == [i \in 1..3 |-> r[i][1] * v[1] + r[i][2] * v[2] + r[i][3] * v[3]]

\* R and t embedded into np.eye(4)
Embed(r, tr) ==
    << <<r[1][1], r[1][2], r[1][3], tr[1]>>,
       <<r[2][1], r[2][2], r[2][3], tr[2]>>,
       <<r[3][1], r[3][2], r[3][3], tr[3]>>,
       <<0, 0, 0, 1>> >>

Id3 == << <<1, 0, 0>>, <<0, 1, 0>>, <<0, 0, 1>> >>

\* rotation by +90 degrees about z
RotZ90 == << <<0, -1, 0>>, <<1, 0, 0>>, <<0, 0, 1>> >>

\* rotation by +90 degrees about x (takes the y axis out of the xy plane)
RotX90 == << <<1, 0, 0>>, <<0, 0, -1>>, <<0, 1, 0>> >>

Zero3 == <<0, 0, 0>>

Shift3 == <<10, 20, 30>>

\* a 4x4 matrix with a bottom row other than [0, 0, 0, 1]: it halves every
\* point it moves by (10, 20, 30)
Projective44 ==
    << <<1, 0, 0, 10>>, <<0, 1, 0, 20>>, <<0, 0, 1, 30>>, <<0, 0, 0, 2>> >>

---------------------------------------------------------------------------
(* Trigonometry on the degree grid *)

\* 1000*cos(d) for d = 0, 10, ..., 90 (index d/10 + 1)
CosTable == <<1000, 985, 940, 866, 766, 643, 500, 342, 174, 0>>

\* 1000 * np.cos(np.radians(d)), d a multiple of 10 degrees
Cos1000(d) ==
    LET a == d % 360
    IN  IF a <= 90 THEN CosTable[(a \div 10) + 1]
        ELSE IF a <= 180 THEN -CosTable[((180 - a) \div 10) + 1]
        ELSE IF a <= 270 THEN -CosTable[((a - 180) \div 10) + 1]
        ELSE CosTable[((360 - a) \div 10) + 1]

\* 1000 * np.sin(np.radians(d))
Sin1000(d) == Cos1000(d - 90)

\* the values np.degrees(np.arctan2(..)) takes on the grid: (-180, 180]
Atan2Range == {k * 10 : k \in (1 - (180 \div 10))..(180 \div 10)}

\* np.degrees(np.arctan2(y, x)), to the nearest angle of the grid (exact for
\* a vector whose direction lies on the grid); arctan2(0, 0) is 0
Atan2Deg(y, x) ==
    IF x = 0 /\ y = 0 THEN 0
    ELSE LET Ahead == {d \in Atan2Range : x * Cos1000(d) + y * Sin1000(d) > 0}
             Off == [d \in Ahead |->
                        LET c == y * Cos1000(d) - x * Sin1000(d)
                        IN  IF c < 0 THEN 0 - c ELSE c]
         IN  CHOOSE d \in Ahead : \A e \in Ahead : Off[d] <= Off[e]

---------------------------------------------------------------------------
(* CoordinateTransformer: angle conversion *)

\* The class defines no add_log method and has no base class.
HasAddLog == FALSE

\* self.add_log(...): an attribute lookup on the instance, then the call
add_log ==
    IF HasAddLog THEN Return(NoneV)
    ELSE Raise("AttributeError", "no attribute add_log")

\* the fault of the mutant: the direction point goes through the full affine
\* transform, the centre through the rotation only
transform_angle_from_camera_to_robot_Affine(tmv, camera_angle_deg) ==
    IF tmv = NoneV
    THEN Raise("ValueError", "calibrate first")
    ELSE IF tmv.t # "ndarray"
    THEN Raise("IndexError", "too many indices for array")
    ELSE LET center == <<0, 0, 0>>
             direction_point ==
                 <<Cos1000(camera_angle_deg), Sin1000(camera_angle_deg), 0>>
             rotation_matrix == RotationBlock(tmv.v)
             center_robot == Dot3(rotation_matrix, center)
             direction_robot ==
                 [i \in 1..3 |-> Dot3(rotation_matrix, direction_point)[i]
                                   + 1000 * tmv.v[i][4]]
             direction_vector ==
                 [i \in 1..3 |-> direction_robot[i] - center_robot[i]]
             robot_angle == Atan2Deg(direction_vector[2], direction_vector[1])
         IN  Return(robot_angle % 360)

transform_angle_from_camera_to_robot(tmv, camera_angle_deg) ==
    IF tmv = NoneV
    THEN Raise("ValueError", "calibrate first")
    ELSE IF tmv.t # "ndarray"
    THEN \* [:3, :3] on an array of dimension 1 or 0
         Raise("IndexError", "too many indices for array")
    ELSE LET center == <<0, 0, 0>>
             direction_point ==
                 <<Cos1000(camera_angle_deg), Sin1000(camera_angle_deg), 0>>
             rotation_matrix == RotationBlock(tmv.v)
             center_robot == Dot3(rotation_matrix, center)
             direction_robot == Dot3(rotation_matrix, direction_point)
             direction_vector ==
                 [i \in 1..3 |-> direction_robot[i] - center_robot[i]]
             robot_angle == Atan2Deg(direction_vector[2], direction_vector[1])
         IN  Return(robot_angle % 360)

\* the body of the try block, lines 147-164
AngleTryBody(tmv, camera_angle, target_angle) ==
    LET r == transform_angle_from_camera_to_robot(tmv, camera_angle)
    IN  IF IsException(r) THEN r
        ELSE LET robot_angle == r.val
                 angle_diff == (target_angle - robot_angle) % 360
                 compensation_angle ==
                     IF angle_diff > 180 THEN angle_diff - 360 ELSE angle_diff
             IN  IF IsException(add_log) THEN add_log
                 ELSE Return(<<robot_angle, compensation_angle>>)

calculate_robot_angle_and_compensation(tmv, camera_angle, target_angle) ==
    LET body == AngleTryBody(tmv, camera_angle, target_angle)
    IN  IF IsException(body)
        THEN \* except Exception as e: self.add_log(...); return camera_angle, 0.0
             IF IsException(add_log) THEN add_log
             ELSE Return(<<camera_angle, 0>>)
        ELSE body

---------------------------------------------------------------------------
(* Fixed-point stand-in for float64: the real r is the integer r * FScale  *)

FScale == 1000

Fix(n) == n * FScale

FMul(a, b) == (a * b) \div FScale

FDiv(a, b) == (a * FScale) \div b

RECURSIVE ISqrtBetween(_, _, _)
\* the largest r in lo..hi with r * r <= n
ISqrtBetween(n, lo, hi) ==
    IF lo >= hi THEN lo
    ELSE LET mid == (lo + hi + 1) \div 2
         IN  IF mid * mid <= n THEN ISqrtBetween(n, mid, hi)
             ELSE ISqrtBetween(n, lo, mid - 1)

\* np.sqrt
FSqrt(a) == ISqrtBetween(a * FScale, 0, a + FScale)

---------------------------------------------------------------------------
(* The calibration file: json.dump and json.load.  A file is the sequence  *)
(* of JSON tokens written to it; a token is a punctuation mark, a string   *)
(* or a number (a float's repr, which float() reads back to the same       *)
(* float).                                                                 *)

P(c) == [k |-> "punct", s |-> c]

S(c) == [k |-> "str", s |-> c]

N(n) == [k |-> "num", n |-> n]

\* no file at the path
FileMissing == [t |-> "missing"]

\* a file holding the token sequence d
FileOf(d) == [t |-> "file", data |-> d]

RECURSIVE JoinComma(_)
\* the token sequences of seqs, separated by commas
JoinComma(seqs) ==
    IF Len(seqs) = 0 THEN <<>>
    ELSE IF Len(seqs) = 1 THEN seqs[1]
    ELSE seqs[1] \o <<P(",")>> \o JoinComma(Tail(seqs))

\* json encoding of a list of numbers
DumpRow(row) ==
    <<P("[")>> \o JoinComma([j \in 1..Len(row) |-> <<N(row[j])>>]) \o <<P("]")>>

\* json encoding of a list of lists of numbers (ndarray.tolist())
DumpRows(m) ==
    <<P("[")>> \o JoinComma([i \in 1..Len(m) |-> DumpRow(m[i])]) \o <<P("]")>>

\* the fault of the mutant: the array is flattened before it is written
tolist_Flattened(a) ==
    IF a.t = "ndarray" THEN [dim |-> 1, v |-> a.v[1] \o a.v[2] \o a.v[3] \o a.v[4]]
    ELSE IF a.t = "ndarray1d" THEN [dim |-> 1, v |-> a.v]
    ELSE [dim |-> 0, v |-> a.item]

\* ndarray.tolist(): nested lists as deep as the array's dimension
tolist(a) ==
    IF a.t = "ndarray" THEN [dim |-> 2, v |-> a.v]
    ELSE IF a.t = "ndarray1d" THEN [dim |-> 1, v |-> a.v]
    ELSE [dim |-> 0, v |-> a.item]

\* json.dump({'matrix': l}, f), l from tolist: the tokens of {"matrix": ...}
JsonDump(l) ==
    <<P("{"), S("matrix"), P(":")>>
        \o (IF l.dim = 2 THEN DumpRows(l.v)
            ELSE IF l.dim = 1 THEN DumpRow(l.v)
            ELSE <<N(l.v)>>)
        \o <<P("}")>>

\* the file text of the 4x4 matrix m
JsonDumpMatrix(m) == JsonDump([dim |-> 2, v |-> m])

\* a dict: parallel sequences of keys, values, the values' JSON types and,
\* for the values that are lists, their elements' JSON types
DictV(keys, vals, tys, etys) ==
    [keys |-> keys, vals |-> vals, tys |-> tys, etys |-> etys]

ParseBad == [ok |-> FALSE, v |-> 0, ty |-> "none", ety |-> <<>>, next |-> 0]

\* a parsed value v of JSON type ty ("num", "str", "list" or "dict"); ety is
\* the sequence of the JSON types of a list's elements
ParseGood(v, ty, ety, next) ==
    [ok |-> TRUE, v |-> v, ty |-> ty, ety |-> ety, next |-> next]

RECURSIVE ParseValue(_, _), ParseElems(_, _, _, _), ParseMembers(_, _, _, _, _, _)
\* the JSON value starting at token i of d
ParseValue(d, i) ==
    IF i > Len(d) THEN ParseBad
    ELSE IF d[i].k = "num" THEN ParseGood(d[i].n, "num", <<>>, i + 1)
    ELSE IF d[i].k = "str" THEN ParseGood(d[i].s, "str", <<>>, i + 1)
    ELSE IF d[i].s = "["
    THEN IF i + 1 <= Len(d) /\ d[i + 1] = P("]")
         THEN ParseGood(<<>>, "list", <<>>, i + 2)
         ELSE ParseElems(d, i + 1, <<>>, <<>>)
    ELSE IF d[i].s = "{"
    THEN IF i + 1 <= Len(d) /\ d[i + 1] = P("}")
         THEN ParseGood(DictV(<<>>, <<>>, <<>>, <<>>), "dict", <<>>, i + 2)
         ELSE ParseMembers(d, i + 1, <<>>, <<>>, <<>>, <<>>)
    ELSE ParseBad

\* the elements of an array from token i on, acc being those read so far
\* and tys their JSON types
ParseElems(d, i, acc, tys) ==
    LET e == ParseValue(d, i)
    IN  IF ~e.ok \/ e.next > Len(d) THEN ParseBad
        ELSE IF d[e.next] = P(",")
        THEN ParseElems(d, e.next + 1, Append(acc, e.v), Append(tys, e.ty))
        ELSE IF d[e.next] = P("]")
        THEN ParseGood(Append(acc, e.v), "list", Append(tys, e.ty), e.next + 1)
        ELSE ParseBad

\* the members of an object from token i on
ParseMembers(d, i, keys, vals, tys, etys) ==
    IF i + 1 > Len(d) \/ d[i].k # "str" \/ d[i + 1] # P(":") THEN ParseBad
    ELSE LET e == ParseValue(d, i + 2)
         IN  IF ~e.ok \/ e.next > Len(d) THEN ParseBad
             ELSE IF d[e.next] = P(",")
             THEN ParseMembers(d, e.next + 1, Append(keys, d[i].s),
                               Append(vals, e.v), Append(tys, e.ty),
                               Append(etys, e.ety))
             ELSE IF d[e.next] = P("}")
             THEN ParseGood(DictV(Append(keys, d[i].s), Append(vals, e.v),
                                  Append(tys, e.ty), Append(etys, e.ety)),
                            "dict", <<>>, e.next + 1)
             ELSE ParseBad

\* json.load(f): the value of the whole text with its type, or JSONDecodeError
JsonLoad(d) ==
    LET r == ParseValue(d, 1)
    IN  IF r.ok /\ r.next = Len(d) + 1 THEN Return([ty |-> r.ty, v |-> r.v])
        ELSE Raise("JSONDecodeError", "not JSON")

\* matrix_data['matrix'], matrix_data being a value json.load returned
GetMatrixItem(matrix_data) ==
    IF matrix_data.ty = "list"
    THEN Raise("TypeError", "list indices must be integers")
    ELSE IF matrix_data.ty = "num"
    THEN Raise("TypeError", "object is not subscriptable")
    ELSE IF matrix_data.ty = "str"
    THEN Raise("TypeError", "string indices must be integers")
    ELSE LET keys == matrix_data.v.keys
         IN  IF \A i \in 1..Len(keys) : keys[i] # "matrix"
             THEN Raise("KeyError", "matrix")
             ELSE LET last == CHOOSE i \in 1..Len(keys) :
                                  /\ keys[i] = "matrix"
                                  /\ \A j \in (i + 1)..Len(keys) : keys[j] # "matrix"
                  IN  Return([ty |-> matrix_data.v.tys[last],
                              v |-> matrix_data.v.vals[last],
                              ety |-> matrix_data.v.etys[last]])

\* issubclass(exc, cls) for the exception classes modelled
IsSubclass(exc, cls) ==
    exc = cls \/ (exc = "JSONDecodeError" /\ cls = "ValueError")

---------------------------------------------------------------------------
(* CoordinateTransformer: load, save, fit and the point transforms.        *)
(* A method is an operator from the instance's transformation_matrix (tmv) *)
(* and the file at matrix_path to their new values and the call's outcome. *)

\* the fault of the mutant: the rows read are taken as columns
np_array_Transposed(item) ==
    IF item.ty = "list" /\ item.v # <<>>
          /\ \A i \in 1..Len(item.ety) : item.ety[i] = "list"
    THEN NdArray([j \in 1..Len(item.v[1]) |->
                     [i \in 1..Len(item.v) |-> item.v[i][j]]])
    ELSE IF item.ty = "list" THEN [t |-> "ndarray1d", v |-> item.v]
    ELSE [t |-> "ndarray0d", item |-> item.v]

\* np.array(v) of a value json.load produced: an array of rows when v is a
\* list of lists, else an array of dimension 1 or 0
np_array(item) ==
    IF item.ty = "list" /\ item.v # <<>>
          /\ \A i \in 1..Len(item.ety) : item.ety[i] = "list"
    THEN NdArray(item.v)
    ELSE IF item.ty = "list" THEN [t |-> "ndarray1d", v |-> item.v]
    ELSE [t |-> "ndarray0d", item |-> item.v]

\* os.path.exists(self.matrix_path)
path_exists(file) == file.t = "file"

\* faults that take the place of load_transformation_matrix in the mutants:
\* the errors of reading are swallowed; a missing file gives the identity;
\* a missing file resets the matrix
load_transformation_matrix_Swallow(tmv, file) ==
    IF ~path_exists(file) THEN [tm |-> tmv, ret |-> Return(NoneV)]
    ELSE LET matrix_data == JsonLoad(file.data)
         IN  IF IsException(matrix_data) THEN [tm |-> tmv, ret |-> Return(NoneV)]
             ELSE LET item == GetMatrixItem(matrix_data.val)
                  IN  IF IsException(item) THEN [tm |-> tmv, ret |-> Return(NoneV)]
                      ELSE [tm |-> np_array(item.val), ret |-> Return(NoneV)]

load_transformation_matrix_DefaultIdentity(tmv, file) ==
    IF ~path_exists(file) THEN [tm |-> NdArray(Eye4), ret |-> Return(NoneV)]
    ELSE LET matrix_data == JsonLoad(file.data)
         IN  IF IsException(matrix_data) THEN [tm |-> tmv, ret |-> matrix_data]
             ELSE LET item == GetMatrixItem(matrix_data.val)
                  IN  IF IsException(item) THEN [tm |-> tmv, ret |-> item]
                      ELSE [tm |-> np_array(item.val), ret |-> Return(NoneV)]

load_transformation_matrix_ResetWhenMissing(tmv, file) ==
    IF ~path_exists(file) THEN [tm |-> NoneV, ret |-> Return(NoneV)]
    ELSE LET matrix_data == JsonLoad(file.data)
         IN  IF IsException(matrix_data) THEN [tm |-> tmv, ret |-> matrix_data]
             ELSE LET item == GetMatrixItem(matrix_data.val)
                  IN  IF IsException(item) THEN [tm |-> tmv, ret |-> item]
                      ELSE [tm |-> np_array(item.val), ret |-> Return(NoneV)]

load_transformation_matrix(tmv, file) ==
    IF ~path_exists(file) THEN [tm |-> tmv, ret |-> Return(NoneV)]
    ELSE LET matrix_data == JsonLoad(file.data)
         IN  IF IsException(matrix_data) THEN [tm |-> tmv, ret |-> matrix_data]
             ELSE LET item == GetMatrixItem(matrix_data.val)
                  IN  IF IsException(item) THEN [tm |-> tmv, ret |-> item]
                      ELSE [tm |-> np_array(item.val), ret |-> Return(NoneV)]

MinPoints == 4

RECURSIVE SumSeq(_)
\* np.sum of a sequence of numbers
SumSeq(seq) == IF seq = <<>> THEN 0 ELSE Head(seq) + SumSeq(Tail(seq))

\* the squared length of a vector of 3
Sq3(v) == v[1] * v[1] + v[2] * v[2] + v[3] * v[3]

\* lines 59-69: the sum of the squares of objective_function(params), params
\* being the rotation r and the translation tr
SumSquares(r, tr, source_points, target_points) ==
    SumSeq([i \in 1..Len(source_points) |->
               Sq3([j \in 1..3 |->
                       r[j][1] * source_points[i][1] + r[j][2] * source_points[i][2]
                         + r[j][3] * source_points[i][3] + tr[j]
                         - target_points[i][j]])])

\* the parameter vectors among which the solver's result is looked for
Candidates == [r : {Id3, RotZ90}, tr : {Zero3, Shift3}]

\* least_squares(objective_function, initial_params, method='trf').x: a
\* parameter vector of least cost
LeastSquares(source_points, target_points) ==
    LET cost == [c \in Candidates |->
                    SumSquares(c.r, c.tr, source_points, target_points)]
    IN  {c \in Candidates : \A o \in Candidates : cost[c] <= cost[o]}

\* the fault of the mutant: transformation_matrix[:, :3] filled, the bottom
\* row with the last row of R
SetRotation_AllRows(m, r) == [i \in 1..4 |-> [j \in 1..4 |->
                               IF j <= 3 THEN r[IF i <= 3 THEN i ELSE 3][j]
                               ELSE m[i][j]]]

\* transformation_matrix[:3, :3] = rotation_matrix
SetRotation(m, r) == [i \in 1..4 |-> [j \in 1..4 |->
                        IF i <= 3 /\ j <= 3 THEN r[i][j] ELSE m[i][j]]]

\* the fault of the mutant: transformation_matrix[3, :3] = translation
SetTranslation_BottomRow(m, tr) == [i \in 1..4 |-> [j \in 1..4 |->
                                      IF i = 4 /\ j <= 3 THEN tr[j] ELSE m[i][j]]]

\* transformation_matrix[:3, 3] = translation
SetTranslation(m, tr) == [i \in 1..4 |-> [j \in 1..4 |->
                            IF i <= 3 /\ j = 4 THEN tr[i] ELSE m[i][j]]]

\* the fault of the mutant: the point lists are checked after the save
FitStatements_ChecksLast ==
    << "least_squares", "np_eye", "set_rotation", "set_translation",
       "assign_self", "save_check_none", "save_tolist", "save_open",
       "save_json_dump", "save_close", "check_equal_len", "check_min_points",
       "return" >>

\* the fault of the mutant: the fit does not save
FitStatements_NoSave ==
    << "check_equal_len", "check_min_points", "least_squares", "np_eye",
       "set_rotation", "set_translation", "assign_self", "return" >>

\* the fault of the mutant: the array is assigned to the instance before it
\* is filled
FitStatements_PublishFirst ==
    << "check_equal_len", "check_min_points", "least_squares", "np_eye",
       "assign_self", "set_rotation", "set_translation",
       "save_check_none", "save_tolist", "save_open", "save_json_dump",
       "save_close", "return" >>

\* the statements of calculate_transformation_matrix, with those of the
\* save_transformation_matrix it calls, in program order
FitStatements ==
    << "check_equal_len",    \* 52-53
       "check_min_points",   \* 55-56
       "least_squares",      \* 59-79
       "np_eye",             \* 82
       "set_rotation",       \* 83
       "set_translation",    \* 84
       "assign_self",        \* 86
       "save_check_none",    \* 22-23
       "save_tolist",        \* 25-27
       "save_open",          \* 29: open(path, 'w') creates or truncates
       "save_json_dump",     \* 30: the text goes to the file object's buffer
       "save_close",         \* 29-30: leaving `with` flushes the buffer
       "return" >>           \* 89

\* the locals of a running calculate_transformation_matrix: the local array
\* transformation_matrix (loc), whether self.transformation_matrix is that
\* same object (alias), the solver's result, save's matrix_data and the file
\* object's buffer
FitLocals0 ==
    [loc |-> Eye4, alias |-> FALSE, solved |-> [r |-> Id3, tr |-> Zero3],
     matrix_data |-> [dim |-> 1, v |-> <<>>], buf |-> <<>>]

\* the state a fit runs in: the instance, the file, the locals, the outcome
FitState(tmv, file) == [tm |-> tmv, file |-> file, l |-> FitLocals0, ret |-> NoRet]

\* a thread that may call calculate_transformation_matrix, between calls:
\* fits counts the calls it has made
IdleWriter(fits) ==
    [op |-> "none", pc |-> 0, fits |-> fits, l |-> FitLocals0,
     source_points |-> <<>>, target_points |-> <<>>]

\* a thread that may call the transforms, before its first call; later used
\* is the array its call read from self.transformation_matrix and at is
\* what the fitting thread was doing then
IdleReader ==
    [op |-> "none", pc |-> "idle", used |-> NoneV, at |-> "no_fit", ret |-> NoRet]

\* a second program that may construct a CoordinateTransformer on the same
\* matrix_path, before it has done so; later tm and ret are what __init__
\* left in its instance and how it ended
IdleLoader == [op |-> "none", tm |-> NoneV, ret |-> NoRet]

\* no fit made yet, or the file written by another program since
NoLoads == [fit |-> NoneV, loads |-> <<>>]

\* no second instance
NoOther == [matrix_path |-> "none", tm |-> NoneV, file |-> FileMissing]

\* no call in progress on any thread
NoThreads == [writer |-> IdleWriter(0), reader |-> IdleReader, loader |-> IdleLoader]

\* lines 52-53; NoRet when the statement falls through
CheckEqualLen(source_points, target_points) ==
    IF Len(source_points) # Len(target_points)
    THEN Raise("ValueError", "source and target point counts must be equal")
    ELSE NoRet

\* lines 55-56, with the faults that take their place in the mutants
CheckMinPoints_Three(source_points) ==
    IF Len(source_points) < 3
    THEN Raise("ValueError", "at least 4 point pairs are needed")
    ELSE NoRet

CheckMinPoints_SameMessage(source_points) ==
    IF Len(source_points) < 4
    THEN Raise("ValueError", "source and target point counts must be equal")
    ELSE NoRet

CheckMinPoints(source_points) ==
    IF Len(source_points) < MinPoints
    THEN Raise("ValueError", "at least 4 point pairs are needed")
    ELSE NoRet

\* one statement of FitStatements; choice is the solver's result
FitStep(stmt, st, source_points, target_points, choice) ==
    CASE stmt = "check_equal_len" ->
            [st EXCEPT !.ret = CheckEqualLen(source_points, target_points)]
      [] stmt = "check_min_points" ->
            [st EXCEPT !.ret = CheckMinPoints(source_points)]
      [] stmt = "least_squares" -> [st EXCEPT !.l.solved = choice]
      [] stmt = "np_eye" -> [st EXCEPT !.l.loc = Eye4, !.l.alias = FALSE]
      [] stmt = "set_rotation" ->
            LET m == SetRotation(st.l.loc, st.l.solved.r)
            IN  [st EXCEPT !.l.loc = m,
                           !.tm = IF st.l.alias THEN NdArray(m) ELSE @]
      [] stmt = "set_translation" ->
            LET m == SetTranslation(st.l.loc, st.l.solved.tr)
            IN  [st EXCEPT !.l.loc = m,
                           !.tm = IF st.l.alias THEN NdArray(m) ELSE @]
      [] stmt = "assign_self" ->
            [st EXCEPT !.tm = NdArray(st.l.loc), !.l.alias = TRUE]
      [] stmt = "save_check_none" ->
            IF st.tm = NoneV
            THEN [st EXCEPT !.ret = Raise("ValueError", "no matrix to save")]
            ELSE st
      [] stmt = "save_tolist" -> [st EXCEPT !.l.matrix_data = tolist(st.tm)]
      [] stmt = "save_open" -> [st EXCEPT !.file = FileOf(<<>>)]
      [] stmt = "save_json_dump" ->
            [st EXCEPT !.l.buf = JsonDump(st.l.matrix_data)]
      [] stmt = "save_close" -> [st EXCEPT !.file = FileOf(st.l.buf)]
      [] stmt = "save_open_fails" ->      \* 29: open raises, the file untouched
            [st EXCEPT !.ret = Raise("OSError", "cannot open the file")]
      [] stmt = "save_close_fails" ->     \* 29-30: the flush raises, the file
            [st EXCEPT !.ret = Raise("OSError", "cannot write the file")]  \* left empty
      [] stmt = "return" -> [st EXCEPT !.ret = Return(NdArray(st.l.loc))]

RECURSIVE RunStatements(_, _, _, _, _, _)
\* the statements stmts[i], stmts[i+1], ... run until one raises or returns
RunStatements(stmts, i, st, source_points, target_points, choice) ==
    IF st.ret # NoRet \/ i > Len(stmts) THEN st
    ELSE RunStatements(stmts, i + 1,
                       FitStep(stmts[i], st, source_points, target_points, choice),
                       source_points, target_points, choice)

calculate_transformation_matrix(tmv, file, source_points, target_points, choice) ==
    RunStatements(FitStatements, 1, FitState(tmv, file),
                  source_points, target_points, choice)

\* the ways the operating system can fail the write of lines 29-30: open
\* raises (no permission, no directory), or the flush at close raises (disk
\* full)
WriteFaults ==
    { [at |-> "save_open", by |-> "save_open_fails"],
      [at |-> "save_close", by |-> "save_close_fails"] }

\* the statements with the one at fault.at failing
WithFault(stmts, fault) ==
    [i \in 1..Len(stmts) |-> IF stmts[i] = fault.at THEN fault.by ELSE stmts[i]]

\* calculate_transformation_matrix on a path whose write fails
calculate_transformation_matrix_unwritable(tmv, file, source_points, target_points, choice, fault) ==
    RunStatements(WithFault(FitStatements, fault), 1, FitState(tmv, file),
                  source_points, target_points, choice)

\* the statements of save_transformation_matrix alone
SaveStatements ==
    <<"save_check_none", "save_tolist", "save_open", "save_json_dump", "save_close">>

save_transformation_matrix(tmv, file) ==
    LET st == RunStatements(SaveStatements, 1, FitState(tmv, file),
                            <<>>, <<>>, FitLocals0.solved)
    IN  [st EXCEPT !.ret = IF @ = NoRet THEN Return(NoneV) ELSE @]

\* np.dot(self.transformation_matrix, np.append(point, 1))
DotHomogeneous(m, point) ==
    [i \in 1..4 |-> m[i][1] * point[1] + m[i][2] * point[2]
                      + m[i][3] * point[3] + m[i][4]]

\* transformed_homogeneous[:3] / transformed_homogeneous[3], in fixed point
Dehomogenise(h) == [i \in 1..3 |-> FDiv(Fix(h[i]), Fix(h[4]))]

\* whether np.dot accepts the array with a vector of 4: its shape is (4, 4)
IsShape44(tmv) ==
    /\ tmv.t = "ndarray"
    /\ Len(tmv.v) = 4
    /\ \A i \in 1..4 : Len(tmv.v[i]) = 4

\* the point transform through an array of dimension 1 or 0: np.dot
\* rejects a vector of another length and multiplies by a scalar
DotNotMatrix(tmv, point) ==
    IF tmv.t = "ndarray0d" /\ tmv.item # 0
    THEN Return([i \in 1..3 |-> FDiv(Fix(tmv.item * point[i]), Fix(tmv.item))])
    ELSE IF tmv.t = "ndarray0d" THEN Return(<<"nan", "nan", "nan">>)
    ELSE Raise("ValueError", "shapes not aligned")

\* the fault of the mutant: the guard of lines 257-258 left out
transform_point_NoGuard(tmv, point) ==
    IF tmv = NoneV THEN Raise("TypeError", "unsupported operand type NoneType")
    ELSE IF ~IsShape44(tmv) THEN DotNotMatrix(tmv, point)
    ELSE Return(Dehomogenise(DotHomogeneous(tmv.v, point)))

transform_point(tmv, point) ==
    IF tmv = NoneV THEN Raise("ValueError", "compute the transformation matrix first")
    ELSE IF ~IsShape44(tmv) THEN DotNotMatrix(tmv, point)
    ELSE Return(Dehomogenise(DotHomogeneous(tmv.v, point)))

\* points is a Python list of points: np.hstack([points, np.ones((len(points),
\* 1))]) of line 284 raises for the empty list, whose array has one dimension
transform_points(tmv, points) ==
    IF tmv = NoneV THEN Raise("ValueError", "compute the transformation matrix first")
    ELSE IF Len(points) = 0
    THEN Raise("ValueError", "all the input arrays must have same number of dimensions")
    ELSE IF ~IsShape44(tmv)
    THEN IF tmv.t = "ndarray0d"
         THEN Return([n \in 1..Len(points) |-> DotNotMatrix(tmv, points[n]).val])
         ELSE Raise("ValueError", "shapes not aligned")
    ELSE Return([n \in 1..Len(points) |->
                    LET h == [j \in 1..4 |->
                                 points[n][1] * tmv.v[j][1] + points[n][2] * tmv.v[j][2]
                                   + points[n][3] * tmv.v[j][3] + 1 * tmv.v[j][4]]
                    IN  [i \in 1..3 |-> FDiv(Fix(h[i]), Fix(h[4]))]])

---------------------------------------------------------------------------
(* Duck-typed arguments of the deprojection *)

\* a Python list / tuple / numpy array of numbers
SeqV(v) == [t |-> "seq", v |-> v]

\* a container with __len__ that cannot be indexed by position (a set)
SetV(n) == [t |-> "set", n |-> n]

\* an object with neither __len__ nor a numeric value
ObjV == [t |-> "obj"]

\* hasattr(v, '__len__')
HasLen(v) == v.t \in {"seq", "set"}

\* len(v), for a value with __len__
PyLen(v) == IF v.t = "seq" THEN Len(v.v) ELSE v.n

\* hasattr(camera_params, attr): camera_params.has is the set of attributes
\* the parameter object carries
hasattr(camera_params, attr) ==
    camera_params.t = "params" /\ attr \in camera_params.has

required_attrs ==
    {"width", "height", "cx", "cy", "fx", "fy", "k1", "k2", "f2rc", "cam2worldMatrix"}

\* the failure value of the single-pixel deprojection
Fail3 == <<FALSE, <<0, 0, 0>>>>

\* the world-mapping test, had it accepted any 16 or more entries
Cam2WorldUsable_AtLeast16(m) == HasLen(m) /\ PyLen(m) >= 16

\* hasattr(cam2worldMatrix, '__len__') and len(cam2worldMatrix) == 16
Cam2WorldUsable(m) == HasLen(m) /\ PyLen(m) = 16

\* np.array(cam2worldMatrix).reshape(4, 4) succeeds: np.array of a list or
\* tuple of 16 numbers has 16 elements, np.array of a set or dict is a 0-d
\* object array, which reshape rejects with ValueError
Reshapes44(m) == m.t = "seq" /\ Len(m.v) = 16

\* m_c2w[i, j] of np.array(cam2worldMatrix).reshape(4, 4), i and j from 0
MC2W(m, i, j) == m.v[4 * i + j + 1]

---------------------------------------------------------------------------
(* CoordinateTransformer.calculate_3d_coordinates_from_depth *)

\* lines 216-231: camera-frame coordinates of pixel (x, y) at range z
PixelCamPoint(x, y, z, camera_params) ==
    LET xp == FDiv(camera_params.cx - Fix(x), camera_params.fx)
        yp == FDiv(camera_params.cy - Fix(y), camera_params.fy)
        r2 == FMul(xp, xp) + FMul(yp, yp)
        r4 == FMul(r2, r2)
        k  == Fix(1) + FMul(camera_params.k1, r2) + FMul(camera_params.k2, r4)
        xd == FMul(xp, k)
        yd == FMul(yp, k)
        s0 == FSqrt(FMul(xd, xd) + FMul(yd, yd) + Fix(1))
        x_cam == FDiv(FMul(xd, z), s0)
        y_cam == FDiv(FMul(yd, z), s0)
        z_cam == FDiv(z, s0) - camera_params.f2rc
    IN  <<x_cam, y_cam, z_cam>>

\* the world point, had the matrix been read column-major
PixelWorldPoint_Transposed(m, c) ==
    LET x_world == MC2W(m, 3, 0) + FMul(c[3], MC2W(m, 2, 0))
                     + FMul(c[2], MC2W(m, 1, 0)) + FMul(c[1], MC2W(m, 0, 0))
        y_world == MC2W(m, 3, 1) + FMul(c[3], MC2W(m, 2, 1))
                     + FMul(c[2], MC2W(m, 1, 1)) + FMul(c[1], MC2W(m, 0, 1))
        z_world == MC2W(m, 3, 2) + FMul(c[3], MC2W(m, 2, 2))
                     + FMul(c[2], MC2W(m, 1, 2)) + FMul(c[1], MC2W(m, 0, 2))
    IN  <<x_world, y_world, z_world>>

\* lines 238-241: the world point of a camera-frame point
PixelWorldPoint(m, c) ==
    LET x_world == MC2W(m, 0, 3) + FMul(c[3], MC2W(m, 0, 2))
                     + FMul(c[2], MC2W(m, 0, 1)) + FMul(c[1], MC2W(m, 0, 0))
        y_world == MC2W(m, 1, 3) + FMul(c[3], MC2W(m, 1, 2))
                     + FMul(c[2], MC2W(m, 1, 1)) + FMul(c[1], MC2W(m, 1, 0))
        z_world == MC2W(m, 2, 3) + FMul(c[3], MC2W(m, 2, 2))
                     + FMul(c[2], MC2W(m, 2, 1)) + FMul(c[1], MC2W(m, 2, 0))
    IN  <<x_world, y_world, z_world>>

\* the world-mapping branch, had it treated an unusable matrix as a failure
PixelWorldStep_NoFallback(camera_params, c) ==
    IF ~hasattr(camera_params, "cam2worldMatrix")
    THEN Raise("AttributeError", "no attribute cam2worldMatrix")
    ELSE IF ~Cam2WorldUsable(camera_params.cam2worldMatrix)
    THEN Return(Fail3)
    ELSE IF ~Reshapes44(camera_params.cam2worldMatrix)
    THEN Raise("ValueError", "cannot reshape array")
    ELSE Return(<<TRUE, PixelWorldPoint(camera_params.cam2worldMatrix, c)>>)

\* lines 233-243: the world-mapping branch
PixelWorldStep(camera_params, c) ==
    IF ~hasattr(camera_params, "cam2worldMatrix")
    THEN Raise("AttributeError", "no attribute cam2worldMatrix")
    ELSE IF ~Cam2WorldUsable(camera_params.cam2worldMatrix)
    THEN Return(<<TRUE, c>>)
    ELSE IF ~Reshapes44(camera_params.cam2worldMatrix)
    THEN Raise("ValueError", "cannot reshape array")
    ELSE Return(<<TRUE, PixelWorldPoint(camera_params.cam2worldMatrix, c)>>)

\* lines 186-243: the body of the try block
PixelTryBody(x, y, depth_data, camera_params) ==
    IF depth_data.t = "none" \/ camera_params.t = "none" THEN Return(Fail3)
    ELSE IF ~HasLen(depth_data) THEN Return(Fail3)
    ELSE IF \E attr \in required_attrs : ~hasattr(camera_params, attr)
    THEN Return(Fail3)
    ELSE IF x < 0 \/ x >= camera_params.width
            \/ y < 0 \/ y >= camera_params.height
    THEN Return(Fail3)
    ELSE LET index == y * camera_params.width + x
         IN  IF index >= PyLen(depth_data) THEN Return(Fail3)
             ELSE IF depth_data.t # "seq"
             THEN Raise("TypeError", "object is not subscriptable")
             ELSE LET z == depth_data.v[index + 1]
                  IN  IF z <= 0 THEN Return(Fail3)
                      ELSE PixelWorldStep(camera_params,
                               PixelCamPoint(x, y, Fix(z), camera_params))

\* the single-pixel deprojection without its except clause
calculate_3d_coordinates_from_depth_NoExcept(x, y, depth_data, camera_params) ==
    PixelTryBody(x, y, depth_data, camera_params)

calculate_3d_coordinates_from_depth(x, y, depth_data, camera_params) ==
    LET body == PixelTryBody(x, y, depth_data, camera_params)
    IN  IF IsException(body) THEN Return(Fail3) ELSE body

---------------------------------------------------------------------------
(* QtVisionSick.get_3d_coordinates and get_z_coordinates (SDK/SickSDK.py). *)
(* A numpy array of n elements is a function on 1..n; element i of the     *)
(* code (from 0) is element i + 1 here.                                    *)

\* np.meshgrid(np.arange(width), np.arange(height))[0].flatten()
x_coords(width, height) == [i \in 1..(width * height) |-> (i - 1) % width]

\* np.meshgrid(np.arange(width), np.arange(height))[1].flatten()
y_coords(width, height) == [i \in 1..(width * height) |-> (i - 1) \div width]

\* the length numpy broadcasts two 1-D operands of lengths a and b to,
\* or -1 when they cannot be broadcast together
BroadcastLen(a, b) ==
    IF a = b THEN a ELSE IF a = 1 THEN b ELSE IF b = 1 THEN a ELSE 0 - 1

\* element i of a 1-D array of length n broadcast to a longer result
Bc(arr, n, i) == IF n = 1 THEN arr[1] ELSE arr[i]

\* lines 263-275: xd, yd and s0 of every pixel of the grid
FrameRays(camera_params) ==
    LET width == camera_params.width
        height == camera_params.height
        xs == x_coords(width, height)
        ys == y_coords(width, height)
    IN  [i \in 1..(width * height) |->
            LET xp == FDiv(camera_params.cx - Fix(xs[i]), camera_params.fx)
                yp == FDiv(camera_params.cy - Fix(ys[i]), camera_params.fy)
                r2 == FMul(xp, xp) + FMul(yp, yp)
                r4 == FMul(r2, r2)
                k  == Fix(1) + FMul(camera_params.k1, r2) + FMul(camera_params.k2, r4)
                xd == FMul(xp, k)
                yd == FMul(yp, k)
            IN  [xd |-> xd, yd |-> yd,
                 s0 |-> FSqrt(FMul(xd, xd) + FMul(yd, yd) + Fix(1))]]

\* lines 276-278: x_cam, y_cam, z_cam of element i of the broadcast arrays
FrameCamPoint(rays, npix, depth, ndepth, f2rc, i) ==
    LET ray == Bc(rays, npix, i)
        z == Fix(Bc(depth, ndepth, i))
    IN  << FDiv(FMul(ray.xd, z), ray.s0),
           FDiv(FMul(ray.yd, z), ray.s0),
           FDiv(z, ray.s0) - f2rc >>

\* lines 283-285: the world point of a camera-frame point
FrameWorldPoint(m, c) ==
    << MC2W(m, 0, 3) + FMul(c[3], MC2W(m, 0, 2))
           + FMul(c[2], MC2W(m, 0, 1)) + FMul(c[1], MC2W(m, 0, 0)),
       MC2W(m, 1, 3) + FMul(c[3], MC2W(m, 1, 2))
           + FMul(c[2], MC2W(m, 1, 1)) + FMul(c[1], MC2W(m, 1, 0)),
       MC2W(m, 2, 3) + FMul(c[3], MC2W(m, 2, 2))
           + FMul(c[2], MC2W(m, 2, 1)) + FMul(c[1], MC2W(m, 2, 0)) >>

\* the full-frame result without the validity mask
FrameMasked_NoMask(depth_i, coord) == coord

\* the mask, had it kept the pixels of depth 0
FrameMasked_KeepZero(depth_i, coord) == IF depth_i >= 0 THEN coord ELSE <<0, 0, 0>>

\* line 292: final_coords[~valid_mask] = [0.0, 0.0, 0.0]
FrameMasked(depth_i, coord) == IF depth_i > 0 THEN coord ELSE <<0, 0, 0>>

\* lines 236-297: the body of the try block; myData is the parsed frame
Frame3dTryBody(myData) ==
    IF ~myData.hasDepthMap
    THEN Raise("ValueError", "No depth map data available")
    ELSE
    LET depth_data == myData.distance
        camera_params == myData.cameraParams
    IN  IF \E attr \in required_attrs : ~hasattr(camera_params, attr)
        THEN Return(<<FALSE, <<>>>>)
        ELSE
        LET npix == camera_params.width * camera_params.height
            ndepth == Len(depth_data)
            n == BroadcastLen(npix, ndepth)
            rays == FrameRays(camera_params)
            m == camera_params.cam2worldMatrix
            cam == [i \in 1..n |->
                      FrameCamPoint(rays, npix, depth_data, ndepth,
                                    camera_params.f2rc, i)]
            final_coords ==
                IF HasLen(m) /\ PyLen(m) = 16
                THEN [i \in 1..n |-> FrameWorldPoint(m, cam[i])]
                ELSE cam
        IN  IF n < 0
            THEN Raise("ValueError", "operands could not be broadcast together")
            ELSE IF HasLen(m) /\ PyLen(m) = 16 /\ ~Reshapes44(m)
            THEN Raise("ValueError", "cannot reshape array")
            ELSE IF ndepth # n
            THEN Raise("IndexError", "boolean index did not match")
            ELSE Return(<<TRUE,
                          [i \in 1..n |-> FrameMasked(depth_data[i], final_coords[i])]>>)

get_3d_coordinates(myData) ==
    LET body == Frame3dTryBody(myData)
    IN  IF IsException(body) THEN Return(<<FALSE, <<>>>>) ELSE body

required_attrs_z ==
    {"width", "height", "cx", "cy", "fx", "fy", "k1", "k2", "f2rc"}

\* lines 340-352 of get_z_coordinates: s0 of every pixel of the grid
ZRays(camera_params) ==
    LET width == camera_params.width
        height == camera_params.height
        xs == x_coords(width, height)
        ys == y_coords(width, height)
    IN  [i \in 1..(width * height) |->
            LET xp == FDiv(camera_params.cx - Fix(xs[i]), camera_params.fx)
                yp == FDiv(camera_params.cy - Fix(ys[i]), camera_params.fy)
                r2 == FMul(xp, xp) + FMul(yp, yp)
                r4 == FMul(r2, r2)
                k  == Fix(1) + FMul(camera_params.k1, r2) + FMul(camera_params.k2, r4)
                xd == FMul(xp, k)
                yd == FMul(yp, k)
            IN  FSqrt(FMul(xd, xd) + FMul(yd, yd) + Fix(1))]

\* line 356: z_cam[~valid_mask] = 0.0
ZMasked(depth_i, z) == IF depth_i > 0 THEN z ELSE 0

\* lines 313-359: the body of the try block
ZTryBody(myData) ==
    IF ~myData.hasDepthMap
    THEN Raise("ValueError", "No depth map data available")
    ELSE
    LET depth_data == myData.distance
        camera_params == myData.cameraParams
    IN  IF \E attr \in required_attrs_z : ~hasattr(camera_params, attr)
        THEN Return(<<>>)
        ELSE
        LET npix == camera_params.width * camera_params.height
            ndepth == Len(depth_data)
            n == BroadcastLen(npix, ndepth)
            s0 == ZRays(camera_params)
            z_cam == [i \in 1..n |->
                        FDiv(Fix(Bc(depth_data, ndepth, i)), Bc(s0, npix, i))
                            - camera_params.f2rc]
        IN  IF n < 0
            THEN Raise("ValueError", "operands could not be broadcast together")
            ELSE IF ndepth # n
            THEN Raise("IndexError", "boolean index did not match")
            ELSE Return([i \in 1..n |-> ZMasked(depth_data[i], z_cam[i])])

get_z_coordinates(myData) ==
    LET body == ZTryBody(myData)
    IN  IF IsException(body) THEN Return(<<>>) ELSE body

---------------------------------------------------------------------------
(* Specification of the angle conversion: a calibrated or uncalibrated     *)
(* instance, on which the conversion is called with every input.           *)

\* the camera angles tried run from -30 to 10 * MaxAngleSteps degrees
MaxAngleSteps == 38

CameraAngles == {k * 10 : k \in (0 - 3)..MaxAngleSteps}

TargetAngles == {0, 45, 90, 180, 350, 0 - 90, 725}

AngleMatrices ==
    { Embed(Id3, Zero3), Embed(Id3, Shift3), Embed(RotZ90, Zero3),
      Embed(RotZ90, Shift3), Embed(RotX90, Zero3), Projective44 }

InitAngle ==
    /\ transformation_matrix \in {NoneV} \cup {NdArray(m) : m \in AngleMatrices}
    /\ fs = FileMissing
    /\ raised = NoneRaised
    /\ threads = NoThreads
    /\ published = {}
    /\ loaded = NoLoads
    /\ other = NoOther
    /\ call \in [op : {"calculate_robot_angle_and_compensation"},
                 camera_angle : CameraAngles, target_angle : TargetAngles]
               \cup [op : {"transform_angle_from_camera_to_robot"},
                     camera_angle_deg : CameraAngles]
    /\ ret = NoRet

AngleCall ==
    /\ call.op = "calculate_robot_angle_and_compensation"
    /\ ret = NoRet
    /\ ret' = calculate_robot_angle_and_compensation(
                  transformation_matrix, call.camera_angle, call.target_angle)
    /\ UNCHANGED <<transformation_matrix, fs, call, raised, threads, published, loaded, other>>

MapAngleCall ==
    /\ call.op = "transform_angle_from_camera_to_robot"
    /\ ret = NoRet
    /\ ret' = transform_angle_from_camera_to_robot(
                  transformation_matrix, call.camera_angle_deg)
    /\ UNCHANGED <<transformation_matrix, fs, call, raised, threads, published, loaded, other>>

NextAngle == AngleCall \/ MapAngleCall

SpecAngle == InitAngle /\ [][NextAngle]_vars

IsAngleCall == call.op = "calculate_robot_angle_and_compensation" /\ ret # NoRet

\* the shortest-path wrap of a difference of angles, as the specification words it
ShortestPath(d) == IF d % 360 > 180 THEN (d % 360) - 360 ELSE d % 360

\* C1: the angle conversion never propagates an error; on an internal failure,
\* in particular with no calibration loaded, it returns the input angle
\* unchanged and a compensation of 0.
C1_NeverRaises ==
    IsAngleCall =>
        /\ ret.kind = "return"
        /\ transformation_matrix = NoneV => ret.val = <<call.camera_angle, 0>>

\* C2: with an identity rotation block the conversion returns the input angle
\* normalised to [0, 360) and the shortest-path value of target - angle.
C2_IdentityPair ==
    (IsAngleCall /\ transformation_matrix # NoneV
        /\ RotationBlock(transformation_matrix.v) = Id3) =>
        /\ ret.kind = "return"
        /\ ret.val = <<call.camera_angle % 360,
                       ShortestPath(call.target_angle - call.camera_angle)>>

\* C20: the compensation returned for a calibrated instance is congruent to
\* target - mapped angle modulo 360 and lies in (-180, 180]
C20_CompensationWrapped ==
    IsAngleCall /\ transformation_matrix # NoneV =>
        /\ ret.kind = "return"
        /\ (ret.val[2] - (call.target_angle - ret.val[1])) % 360 = 0
        /\ ret.val[2] > 0 - 180
        /\ ret.val[2] <= 180

IsMapAngleCall == call.op = "transform_angle_from_camera_to_robot" /\ ret # NoRet

\* C25: the angle transform_angle_from_camera_to_robot returns through a
\* calibration is the angle it returns through every other calibration with
\* the same rotation block, whatever their translations and bottom rows.
C25_AngleDependsOnRotationOnly ==
    (IsMapAngleCall /\ transformation_matrix # NoneV) =>
        /\ ret.kind = "return"
        /\ \A m \in AngleMatrices :
              (\A i, j \in 1..3 : m[i][j] = transformation_matrix.v[i][j]) =>
                  transform_angle_from_camera_to_robot(NdArray(m), call.camera_angle_deg)
                      = ret

\* C25 witness: 120 degrees was mapped through the calibration with identity
\* rotation, translation (10, 20, 30) and bottom row [0, 0, 0, 2], to 120.
C25_Witness ==
    /\ IsMapAngleCall
    /\ transformation_matrix = NdArray(Projective44)
    /\ call.camera_angle_deg = 120
    /\ ret = Return(120)

---------------------------------------------------------------------------
(* Specification of the deprojection: every call of the single-pixel, the  *)
(* full-frame and the z-only deprojection on the inputs below.             *)

\* the largest width and height of the pixel grid
MaxSide == 2

\* a non-symmetric row-major camera-to-world matrix with a translation
World16 ==
    << Fix(0), Fix(0 - 1), Fix(0), Fix(10),
       Fix(1), Fix(0),     200,    Fix(20),
       500,    Fix(0),     Fix(1), Fix(30),
       Fix(0), Fix(0),     Fix(0), Fix(1) >>

\* the values of the cam2worldMatrix attribute tried: None, an object that is
\* no sequence, a set of 16 numbers, and sequences of 0, 12, 15, 16 and 17
\* entries
Cam2WorldValues ==
    {NoneV, ObjV, SetV(16)} \cup
    {SeqV(SubSeq(World16 \o <<Fix(7)>>, 1, n)) : n \in {0, 12, 15, 16, 17}}

\* a parameter object with the attributes `has`
CameraParams(width, height, has, c2w) ==
    [t |-> "params", has |-> has, width |-> width, height |-> height,
     cx |-> 700, cy |-> 300, fx |-> 2000, fy |-> 1500,
     k1 |-> 100, k2 |-> 0 - 20, f2rc |-> 1500, cam2worldMatrix |-> c2w]

ParamsTried ==
    {NoneV} \cup
    UNION {  {CameraParams(w, h, required_attrs, c) : c \in Cam2WorldValues}
               \cup {CameraParams(w, h, required_attrs \ {"cam2worldMatrix"}, NoneV),
                     CameraParams(w, h, required_attrs \ {"k2"}, NoneV)}
             : w \in 1..MaxSide, h \in 1..MaxSide }

\* a valid range sample of n pixels: 5, 6, 7, ...
Ramp(n) == [i \in 1..n |-> 4 + i]

\* the depth lists tried: the ramp, and the ramp with one sample <= 0
DepthLists ==
    UNION { {Ramp(n)} \cup {[Ramp(n) EXCEPT ![j] = v] : j \in 1..n, v \in {0, 0 - 2}}
            : n \in 0..(MaxSide * MaxSide) }

DepthArgs == {NoneV, ObjV, SetV(MaxSide * MaxSide)} \cup {SeqV(d) : d \in DepthLists}

PixelCalls ==
    [op : {"calculate_3d_coordinates_from_depth"},
     x : (0 - 1)..MaxSide, y : (0 - 1)..MaxSide,
     depth_data : DepthArgs, camera_params : ParamsTried]

FrameData ==
    [hasDepthMap : BOOLEAN, distance : DepthLists, cameraParams : ParamsTried]

FrameCalls == [op : {"get_3d_coordinates", "get_z_coordinates"}, myData : FrameData]

InitDeproject ==
    /\ transformation_matrix = NoneV
    /\ fs = FileMissing
    /\ raised = NoneRaised
    /\ threads = NoThreads
    /\ published = {}
    /\ loaded = NoLoads
    /\ other = NoOther
    /\ call \in PixelCalls \cup FrameCalls
    /\ ret = NoRet

PixelCall ==
    /\ call.op = "calculate_3d_coordinates_from_depth"
    /\ ret = NoRet
    /\ ret' = calculate_3d_coordinates_from_depth(
                  call.x, call.y, call.depth_data, call.camera_params)
    /\ UNCHANGED <<transformation_matrix, fs, call, raised, threads, published, loaded, other>>

FrameCall ==
    /\ call.op = "get_3d_coordinates"
    /\ ret = NoRet
    /\ ret' = get_3d_coordinates(call.myData)
    /\ UNCHANGED <<transformation_matrix, fs, call, raised, threads, published, loaded, other>>

ZCall ==
    /\ call.op = "get_z_coordinates"
    /\ ret = NoRet
    /\ ret' = get_z_coordinates(call.myData)
    /\ UNCHANGED <<transformation_matrix, fs, call, raised, threads, published, loaded, other>>

NextDeproject == PixelCall \/ FrameCall \/ ZCall

SpecDeproject == InitDeproject /\ [][NextDeproject]_vars

---------------------------------------------------------------------------
(* Claims about the deprojection *)

IsPixelCall == call.op = "calculate_3d_coordinates_from_depth" /\ ret # NoRet

IsFrameCall == call.op = "get_3d_coordinates" /\ ret # NoRet

IsZCall == call.op = "get_z_coordinates" /\ ret # NoRet

ScalarAttrs == {"width", "height", "cx", "cy", "fx", "fy", "k1", "k2", "f2rc"}

\* the call names a pixel of the grid whose range sample exists and is > 0,
\* on a parameter object carrying every scalar attribute
GoodPixel(c) ==
    /\ c.camera_params.t = "params"
    /\ ScalarAttrs \subseteq c.camera_params.has
    /\ c.depth_data.t = "seq"
    /\ c.x \in 0..(c.camera_params.width - 1)
    /\ c.y \in 0..(c.camera_params.height - 1)
    /\ c.y * c.camera_params.width + c.x < Len(c.depth_data.v)
    /\ c.depth_data.v[c.y * c.camera_params.width + c.x + 1] > 0

\* the camera-frame point of the call's pixel
CamPointOf(c) ==
    PixelCamPoint(c.x, c.y,
                  Fix(c.depth_data.v[c.y * c.camera_params.width + c.x + 1]),
                  c.camera_params)

\* C3 as claimed: with every scalar attribute present and no cam2worldMatrix
\* attribute at all, a good pixel is deprojected with ok = true to its
\* camera-frame point.
C3_MatrixAttrOptional ==
    (IsPixelCall /\ GoodPixel(call)
        /\ "cam2worldMatrix" \notin call.camera_params.has) =>
        ret = Return(<<TRUE, CamPointOf(call)>>)

\* C3 as amended: the cam2worldMatrix attribute must exist, but its value is
\* optional.  When it holds None, a value without a length or a value of a
\* length other than 16, a good pixel is deprojected with ok = true to its
\* camera-frame point; when the attribute is missing the call returns
\* (false, (0,0,0)).
C3_MatrixValueOptional ==
    (IsPixelCall /\ GoodPixel(call)) =>
        /\ ("cam2worldMatrix" \in call.camera_params.has
              /\ ~(HasLen(call.camera_params.cam2worldMatrix)
                     /\ PyLen(call.camera_params.cam2worldMatrix) = 16))
              => ret = Return(<<TRUE, CamPointOf(call)>>)
        /\ "cam2worldMatrix" \notin call.camera_params.has
              => ret = Return(<<FALSE, <<0, 0, 0>>>>)

\* C3 witness: a good pixel was deprojected to a camera-frame point under a
\* parameter object whose cam2worldMatrix is None.
C3_Witness ==
    /\ IsPixelCall /\ GoodPixel(call)
    /\ "cam2worldMatrix" \in call.camera_params.has
    /\ call.camera_params.cam2worldMatrix = NoneV
    /\ ret.val[1] = TRUE
    /\ ret.val[2] # <<0, 0, 0>>

\* the frame is one the full-frame deprojection accepts
FrameAccepted(d) ==
    /\ d.hasDepthMap
    /\ d.cameraParams.t = "params"
    /\ required_attrs \subseteq d.cameraParams.has
    /\ Len(d.distance) = d.cameraParams.width * d.cameraParams.height
    /\ (HasLen(d.cameraParams.cam2worldMatrix)
          /\ PyLen(d.cameraParams.cam2worldMatrix) = 16)
          => Reshapes44(d.cameraParams.cam2worldMatrix)

\* C4: at every pixel index the z-only deprojection returns the z component
\* of the full-frame deprojection of the same frame, with and without a
\* 16-entry cam2worldMatrix.
C4_ZAgreesWithFrame ==
    (IsZCall /\ FrameAccepted(call.myData)) =>
        LET full == get_3d_coordinates(call.myData).val[2]
        IN  /\ ret.kind = "return"
            /\ Len(ret.val) = Len(full)
            /\ \A i \in 1..Len(full) : ret.val[i] = full[i][3]

\* C5: for every pixel (x, y) of the grid the full-frame output at index
\* y * width + x is the point the single-pixel deprojection returns for
\* (x, y) on the same range samples and parameters, with and without a
\* 16-entry cam2worldMatrix; a sample <= 0 gives (0,0,0) in both.
C5_FrameAgreesWithPixel ==
    (IsFrameCall /\ FrameAccepted(call.myData)) =>
        LET p == call.myData.cameraParams
        IN  /\ ret.kind = "return"
            /\ ret.val[1] = TRUE
            /\ Len(ret.val[2]) = p.width * p.height
            /\ \A x \in 0..(p.width - 1), y \in 0..(p.height - 1) :
                  ret.val[2][y * p.width + x + 1] =
                      calculate_3d_coordinates_from_depth(
                          x, y, SeqV(call.myData.distance), p).val[2]

\* C5 witness: a 2x2 frame with a 16-entry cam2worldMatrix, one sample <= 0
\* and three valid ones, was deprojected.
C5_Witness ==
    /\ IsFrameCall /\ FrameAccepted(call.myData)
    /\ call.myData.cameraParams.width = 2 /\ call.myData.cameraParams.height = 2
    /\ Cam2WorldUsable(call.myData.cameraParams.cam2worldMatrix)
    /\ call.myData.distance[3] <= 0
    /\ ret.val[2][3] = <<0, 0, 0>>
    /\ \A i \in {1, 2, 4} : call.myData.distance[i] > 0 /\ ret.val[2][i] # <<0, 0, 0>>

\* the cases in which the single-pixel deprojection must report failure
PixelMustFail(c) ==
    \/ c.camera_params.t = "none"
    \/ c.depth_data.t = "none"
    \/ c.depth_data.t \in {"obj", "set"}
    \/ (c.camera_params.t = "params" /\ ~(ScalarAttrs \subseteq c.camera_params.has))
    \/ (c.camera_params.t = "params" /\ c.depth_data.t = "seq"
          /\ \/ c.x < 0 \/ c.x >= c.camera_params.width
             \/ c.y < 0 \/ c.y >= c.camera_params.height
             \/ c.y * c.camera_params.width + c.x >= Len(c.depth_data.v)
             \/ c.depth_data.v[c.y * c.camera_params.width + c.x + 1] <= 0)

\* C6: the single-pixel deprojection is total: it never raises, and it
\* returns (false, (0,0,0)) when the parameters or the range samples are
\* null, the range samples cannot be indexed, a required attribute is
\* missing, x or y is off the grid, the index is past the samples, or the
\* sample is <= 0.
C6_PixelTotal ==
    IsPixelCall =>
        /\ ret.kind = "return"
        /\ PixelMustFail(call) => ret.val = <<FALSE, <<0, 0, 0>>>>

\* C6 witness: the call was made on range samples that have a length but
\* cannot be indexed, at a pixel of the grid, and it reported failure.
C6_Witness ==
    /\ IsPixelCall
    /\ call.depth_data.t = "set"
    /\ call.camera_params.t = "params"
    /\ required_attrs \subseteq call.camera_params.has
    /\ call.x \in 0..(call.camera_params.width - 1)
    /\ call.y \in 0..(call.camera_params.height - 1)
    /\ ret = Return(<<FALSE, <<0, 0, 0>>>>)

\* the value of the call's cam2worldMatrix attribute
MatrixOf(c) == c.camera_params.cam2worldMatrix

\* C21 as claimed: for a good pixel the world mapping is applied exactly
\* when cam2worldMatrix is a sequence of exactly 16 entries; for a sequence
\* of any other length and for every non-sequence value the call returns the
\* camera-frame point with ok = true.
C21_WorldMappingIffSixteen ==
    (IsPixelCall /\ GoodPixel(call) /\ "cam2worldMatrix" \in call.camera_params.has) =>
        IF MatrixOf(call).t = "seq" /\ Len(MatrixOf(call).v) = 16
        THEN ret = Return(<<TRUE, PixelWorldPoint(MatrixOf(call), CamPointOf(call))>>)
        ELSE ret = Return(<<TRUE, CamPointOf(call)>>)

\* C21 as amended: for a good pixel the world mapping is applied when
\* cam2worldMatrix is a sequence of exactly 16 numbers; the call returns the
\* camera-frame point with ok = true when the value has no length or a
\* length other than 16; and it returns (false, (0,0,0)) when the value has
\* length 16 but is no sequence (a set or dict of 16 entries).
C21_WorldMappingByLength ==
    (IsPixelCall /\ GoodPixel(call) /\ "cam2worldMatrix" \in call.camera_params.has) =>
        IF ~HasLen(MatrixOf(call)) \/ PyLen(MatrixOf(call)) # 16
        THEN ret = Return(<<TRUE, CamPointOf(call)>>)
        ELSE IF MatrixOf(call).t = "seq"
        THEN ret = Return(<<TRUE, PixelWorldPoint(MatrixOf(call), CamPointOf(call))>>)
        ELSE ret = Return(<<FALSE, <<0, 0, 0>>>>)

\* C21 witness: a good pixel was mapped to a world point, different from
\* its camera-frame point, under a 16-entry cam2worldMatrix.
C21_Witness ==
    /\ IsPixelCall /\ GoodPixel(call)
    /\ "cam2worldMatrix" \in call.camera_params.has
    /\ MatrixOf(call).t = "seq" /\ Len(MatrixOf(call).v) = 16
    /\ ret.val[1] = TRUE
    /\ ret.val[2] # CamPointOf(call)

\* the 16 values reshaped row-major to 4x4: row i holds entries 4i .. 4i+3
RowMajor44(v) == [i \in 1..4 |-> [j \in 1..4 |-> v[4 * (i - 1) + j]]]

Transposed44(M) == [i \in 1..4 |-> [j \in 1..4 |-> M[j][i]]]

\* the first three components of the matrix-vector product M * [x, y, z, 1]
MatVec3(M, c) ==
    LET v == <<c[1], c[2], c[3], Fix(1)>>
    IN  [i \in 1..3 |-> FMul(M[i][1], v[1]) + FMul(M[i][2], v[2])
                           + FMul(M[i][3], v[3]) + FMul(M[i][4], v[4])]

\* the call carries a 16-number cam2worldMatrix that is not symmetric
NonSymmetric16(p) ==
    /\ p.t = "params" /\ "cam2worldMatrix" \in p.has
    /\ Reshapes44(p.cam2worldMatrix)
    /\ RowMajor44(p.cam2worldMatrix.v) # Transposed44(RowMajor44(p.cam2worldMatrix.v))

\* the single-pixel call that deprojects pixel i (from 1) of a frame
PixelOfFrame(d, i) ==
    [x |-> (i - 1) % d.cameraParams.width, y |-> (i - 1) \div d.cameraParams.width,
     depth_data |-> SeqV(d.distance), camera_params |-> d.cameraParams]

\* C22 as claimed: under a non-symmetric 16-entry cam2worldMatrix M the world
\* point of a good pixel differs from the conventional row-major product
\* M * [x_cam, y_cam, z_cam, 1].
C22_DiffersFromRowMajorProduct ==
    (IsPixelCall /\ GoodPixel(call) /\ NonSymmetric16(call.camera_params)) =>
        ret.val[2] # MatVec3(RowMajor44(MatrixOf(call).v), CamPointOf(call))

\* C22 as amended: under a 16-entry cam2worldMatrix M the world point of a
\* good pixel, in the single-pixel and in the full-frame deprojection, is
\* the conventional row-major product M * [x_cam, y_cam, z_cam, 1]; for the
\* non-symmetric M it differs from the product with M transposed.
C22_IsRowMajorProduct ==
    /\ (IsPixelCall /\ GoodPixel(call) /\ NonSymmetric16(call.camera_params)) =>
          /\ ret.val[1] = TRUE
          /\ ret.val[2] = MatVec3(RowMajor44(MatrixOf(call).v), CamPointOf(call))
          /\ ret.val[2] # MatVec3(Transposed44(RowMajor44(MatrixOf(call).v)),
                                  CamPointOf(call))
    /\ (IsFrameCall /\ FrameAccepted(call.myData)
          /\ NonSymmetric16(call.myData.cameraParams)) =>
          \A i \in 1..Len(call.myData.distance) :
              call.myData.distance[i] > 0 =>
                  /\ ret.val[2][i] =
                        MatVec3(RowMajor44(call.myData.cameraParams.cam2worldMatrix.v),
                                CamPointOf(PixelOfFrame(call.myData, i)))
                  /\ ret.val[2][i] #
                        MatVec3(Transposed44(RowMajor44(
                                    call.myData.cameraParams.cam2worldMatrix.v)),
                                CamPointOf(PixelOfFrame(call.myData, i)))

\* C22 witness: a 2x2 frame of valid samples was deprojected under the
\* non-symmetric 16-entry matrix.
C22_Witness ==
    /\ IsFrameCall /\ FrameAccepted(call.myData)
    /\ NonSymmetric16(call.myData.cameraParams)
    /\ Len(call.myData.distance) = 4
    /\ \A i \in 1..4 : call.myData.distance[i] > 0
    /\ ret.val[1] = TRUE

\* the unmasked point of pixel i (from 1) of a frame: its world point under
\* a 16-number cam2worldMatrix, else its camera-frame point
UnmaskedPoint(d, i) ==
    IF Reshapes44(d.cameraParams.cam2worldMatrix)
    THEN MatVec3(RowMajor44(d.cameraParams.cam2worldMatrix.v),
                 CamPointOf(PixelOfFrame(d, i)))
    ELSE CamPointOf(PixelOfFrame(d, i))

\* C23: the full-frame deprojection of an accepted frame returns width *
\* height triples; the triple at index y * width + x is (0,0,0) when the
\* sample of pixel (x, y) is <= 0, with and without a cam2worldMatrix, and
\* is the unmasked point of pixel (x, y) when the sample is > 0.
C23_FrameOrderedAndMasked ==
    (IsFrameCall /\ FrameAccepted(call.myData)) =>
        /\ ret.kind = "return"
        /\ ret.val[1] = TRUE
        /\ Len(ret.val[2]) = call.myData.cameraParams.width
                               * call.myData.cameraParams.height
        /\ \A i \in 1..Len(call.myData.distance) :
              ret.val[2][i] = IF call.myData.distance[i] > 0
                              THEN UnmaskedPoint(call.myData, i)
                              ELSE <<0, 0, 0>>

\* C23 witness: a 2x2 frame whose first sample is 0 and whose other samples
\* are valid was deprojected under the matrix with a translation: the first
\* triple is (0,0,0), the others are four different non-zero points.
C23_Witness ==
    /\ IsFrameCall /\ FrameAccepted(call.myData)
    /\ Reshapes44(call.myData.cameraParams.cam2worldMatrix)
    /\ Len(call.myData.distance) = 4
    /\ call.myData.cameraParams.width = 2
    /\ call.myData.distance[1] = 0
    /\ ret.val[2][1] = <<0, 0, 0>>
    /\ \A i \in 2..4 : call.myData.distance[i] > 0 /\ ret.val[2][i] # <<0, 0, 0>>
    /\ Cardinality({ret.val[2][i] : i \in 1..4}) = 4

---------------------------------------------------------------------------
(* Specification of the calibration: one CoordinateTransformer, called     *)
(* from one thread, and the file at its matrix_path, which other programs  *)
(* can write.                                                              *)

MaxPts == 4

\* the lengths of the point lists passed to the fit: none, one fewer than
\* the fit accepts, and the accepted lengths up to MaxPts
Lengths == {0} \cup ((MinPoints - 1)..MaxPts)

\* calibration points: the unit frame first, then points off its planes
BasePoint(i) ==
    CASE i = 1 -> <<0, 0, 0>>
      [] i = 2 -> <<1, 0, 0>>
      [] i = 3 -> <<0, 1, 0>>
      [] i = 4 -> <<0, 0, 1>>
      [] OTHER -> <<i, 1, i - 3>>

SourcePointsOf(n) == [i \in 1..n |-> BasePoint(i)]

\* the rigid motions the measured target points come from
Truths == {[r |-> Id3, tr |-> Shift3], [r |-> RotZ90, tr |-> Zero3]}

TargetPointsOf(truth, m) ==
    [i \in 1..m |-> LET moved == Dot3(truth.r, BasePoint(i))
                    IN  [j \in 1..3 |-> moved[j] + truth.tr[j]]]

Points == {<<0, 0, 0>>, <<1, 2, 3>>}

PointLists == {<<>>, <<<<1, 2, 3>>, <<0, 0, 0>>>>}

\* what another program, or an interrupted write, leaves at matrix_path:
\* nothing, the head of a dump, an object without 'matrix', a list, a
\* 'matrix' that is not 4x4, a 4x4 matrix with a non-unit bottom row
ForeignFiles ==
    { <<>>,
      JsonDumpMatrix(Projective44),
      SubSeq(JsonDumpMatrix(Eye4), 1, 9),
      <<P("{"), P("}")>>,
      <<P("["), N(1), P("]")>>,
      <<P("{"), S("matrix"), P(":"), P("["), N(1), P("]"), P("}")>> }

\* the files calibrated runs of the program leave
CalibrationFiles == {FileOf(JsonDumpMatrix(Embed(c.r, c.tr))) : c \in Truths}

\* the cause of a failure, read off the call's input
FitCause(source_points, target_points) ==
    IF Len(source_points) # Len(target_points) THEN "mismatched_lengths"
    ELSE IF Len(source_points) < 4 THEN "too_few_pairs"
    ELSE "other"

TransformCause(tmv) == IF tmv = NoneV THEN "no_calibration" ELSE "other"

\* the file holds exactly the dump of a 4x4 matrix
WellFormed(file) ==
    LET r == load_transformation_matrix(NoneV, file)
    IN  /\ ~IsException(r.ret)
        /\ IsShape44(r.tm)
        /\ JsonDumpMatrix(r.tm.v) = file.data

LoadCause(file) ==
    IF path_exists(file) /\ ~WellFormed(file) THEN "corrupt_file" ELSE "other"

\* raised after a call with outcome r whose input had that cause: the
\* failure of this call and the first failure of the run
Noted(cause, r) ==
    LET f == IF IsException(r) /\ cause # "other"
             THEN [cause |-> cause, exc |-> r.exc, msg |-> r.msg]
             ELSE NoFailure
    IN  [first |-> IF raised.first = NoFailure THEN f ELSE raised.first,
         last |-> f]

\* loaded after a load or a construction with result r: while the file is
\* as the last fit left it, the first two results are kept
LoadNoted(r) ==
    IF loaded.fit # NoneV /\ Len(loaded.loads) < 2
    THEN [loaded EXCEPT !.loads =
             Append(@, IF IsException(r.ret) THEN r.ret ELSE r.tm)]
    ELSE loaded

\* the instance exists: the last construction did not fail
Alive == ~(call.op = "__init__" /\ IsException(ret))

\* __init__ (lines 7-16) on a path with no file or a file of an earlier run
Init ==
    /\ fs \in {FileMissing} \cup CalibrationFiles
    /\ transformation_matrix = load_transformation_matrix(NoneV, fs).tm
    /\ call = NoCall
    /\ ret = NoRet
    /\ raised = NoneRaised
    /\ threads = NoThreads
    /\ published = {}
    /\ loaded = NoLoads
    /\ other = NoOther

\* the program constructs its instance anew (a restart): lines 14-16 on the
\* file as it is now; when load raises, __init__ raises and there is no
\* instance until a later construction
Construct ==
    \E r \in {load_transformation_matrix(NoneV, fs)} :
        /\ transformation_matrix' = r.tm
        /\ call' = [op |-> "__init__", file |-> fs]
        /\ ret' = r.ret
        /\ raised' = Noted(LoadCause(fs), r.ret)
        /\ loaded' = LoadNoted(r)
        /\ UNCHANGED <<fs, threads, published, other>>

Fit ==
    /\ Alive
    /\ \E n \in Lengths, m \in Lengths, truth \in Truths :
        \E source_points \in {SourcePointsOf(n)},
           target_points \in {TargetPointsOf(truth, m)} :
            \E choice \in IF FitCause(source_points, target_points) = "other"
                          THEN LeastSquares(source_points, target_points)
                          ELSE {FitLocals0.solved} :
                \E st \in {calculate_transformation_matrix(
                               transformation_matrix, fs,
                               source_points, target_points, choice)} :
                    /\ transformation_matrix' = st.tm
                    /\ fs' = st.file
                    /\ call' = [op |-> "calculate_transformation_matrix",
                                source_points |-> source_points,
                                target_points |-> target_points,
                                held |-> transformation_matrix]
                    /\ ret' = st.ret
                    /\ raised' = Noted(FitCause(source_points, target_points), st.ret)
                    /\ loaded' = IF st.ret.kind = "return"
                                 THEN [fit |-> st.ret.val, loads |-> <<>>]
                                 ELSE loaded
                    /\ UNCHANGED <<threads, published, other>>

Load ==
    \E r \in {load_transformation_matrix(transformation_matrix, fs)} :
        /\ Alive
        /\ transformation_matrix' = r.tm
        /\ call' = [op |-> "load_transformation_matrix", file |-> fs]
        /\ ret' = r.ret
        /\ raised' = Noted(LoadCause(fs), r.ret)
        /\ loaded' = LoadNoted(r)
        /\ UNCHANGED <<fs, threads, published, other>>

Save ==
    \E st \in {save_transformation_matrix(transformation_matrix, fs)} :
        /\ Alive
        /\ fs' = st.file
        /\ call' = [op |-> "save_transformation_matrix"]
        /\ ret' = st.ret
        /\ raised' = Noted("other", st.ret)
        /\ UNCHANGED <<transformation_matrix, threads, published, loaded, other>>

TransformPoint ==
    \E point \in Points :
        /\ Alive
        /\ call' = [op |-> "transform_point", point |-> point]
        /\ ret' = transform_point(transformation_matrix, point)
        /\ raised' = Noted(TransformCause(transformation_matrix), ret')
        /\ UNCHANGED <<transformation_matrix, fs, threads, published, loaded, other>>

TransformPoints ==
    \E points \in PointLists :
        /\ Alive
        /\ call' = [op |-> "transform_points", points |-> points]
        /\ ret' = transform_points(transformation_matrix, points)
        /\ raised' = Noted(TransformCause(transformation_matrix), ret')
        /\ UNCHANGED <<transformation_matrix, fs, threads, published, loaded, other>>

TransformAngle ==
    \E camera_angle_deg \in {0, 30} :
        /\ Alive
        /\ call' = [op |-> "transform_angle_from_camera_to_robot",
                    camera_angle_deg |-> camera_angle_deg]
        /\ ret' = transform_angle_from_camera_to_robot(
                      transformation_matrix, camera_angle_deg)
        /\ raised' = Noted("other", ret')
        /\ UNCHANGED <<transformation_matrix, fs, threads, published, loaded, other>>

AngleCompensation ==
    /\ Alive
    /\ call' = [op |-> "calculate_robot_angle_and_compensation",
                camera_angle |-> 30, target_angle |-> 90]
    /\ ret' = calculate_robot_angle_and_compensation(transformation_matrix, 30, 90)
    /\ raised' = Noted("other", ret')
    /\ UNCHANGED <<transformation_matrix, fs, threads, published, loaded, other>>

DeprojectPixel ==
    \E depth_data \in {NoneV, SeqV(Ramp(1))} :
        /\ Alive
        /\ call' = [op |-> "calculate_3d_coordinates_from_depth", x |-> 0, y |-> 0,
                    depth_data |-> depth_data,
                    camera_params |-> CameraParams(1, 1, required_attrs, NoneV)]
        /\ ret' = calculate_3d_coordinates_from_depth(
                      0, 0, depth_data, CameraParams(1, 1, required_attrs, NoneV))
        /\ raised' = Noted("other", ret')
        /\ UNCHANGED <<transformation_matrix, fs, threads, published, loaded, other>>

\* another program replaces or removes the file at matrix_path
ExternalWrite ==
    /\ fs' \in {FileMissing} \cup {FileOf(d) : d \in ForeignFiles}
    /\ fs' # fs
    /\ loaded' = NoLoads
    /\ UNCHANGED <<transformation_matrix, call, ret, raised, threads, published, other>>

Next ==
    \/ Construct
    \/ Fit
    \/ Load
    \/ Save
    \/ TransformPoint
    \/ TransformPoints
    \/ TransformAngle
    \/ AngleCompensation
    \/ DeprojectPixel
    \/ ExternalWrite

Spec == Init /\ [][Next]_vars

---------------------------------------------------------------------------
(* Claims about the fit's validation and the failures' kinds *)

IsFitCall == call.op = "calculate_transformation_matrix"

\* the error of line 53
InvalidInput == Raise("ValueError", "source and target point counts must be equal")

\* the error of line 56
InsufficientData == Raise("ValueError", "at least 4 point pairs are needed")

\* C9: a fit whose point lists differ in length fails with the error of the
\* length check (InvalidInput), also when both lists are shorter than 4; a
\* fit with lists of one length below 4 fails with the error of the minimum
\* check (InsufficientData); a fit with lists of one length of 4 or more
\* raises neither and returns.  Both errors are Python ValueErrors; they are
\* told apart by the statement that raises them.
C9_FitRejectsBadPointSets ==
    IsFitCall =>
        LET n == Len(call.source_points)
            m == Len(call.target_points)
        IN  /\ n # m => ret = InvalidInput
            /\ n = m /\ n < 4 => ret = InsufficientData
            /\ n = m /\ n >= 4 => ret.kind = "return"

\* a fit with lists of different lengths, both shorter than 4, was rejected
C9_Witness ==
    /\ IsFitCall
    /\ Len(call.source_points) # Len(call.target_points)
    /\ Len(call.source_points) < 4
    /\ Len(call.target_points) < 4
    /\ ret = InvalidInput

FourCauses == {"mismatched_lengths", "too_few_pairs", "no_calibration", "corrupt_file"}

\* C10 as stated: two failures of different causes (mismatched lengths, too
\* few pairs, no calibration, corrupt file) are of different exception kinds
C10_DistinctKinds ==
    /\ raised.first # NoFailure
    /\ raised.last # NoFailure
    /\ raised.first.cause # raised.last.cause
    => raised.first.exc # raised.last.exc

\* C10 as amended: the failures for mismatched lengths, too few pairs and no
\* calibration are all of the kind ValueError, the failure for a file that
\* is not JSON or has no 'matrix' entry is a JSONDecodeError, a KeyError or
\* a TypeError, and two failures of different causes differ in the pair of
\* kind and message
C10_DistinctMessages ==
    /\ \A f \in {raised.first, raised.last} :
          /\ f.cause \in FourCauses \ {"corrupt_file"} => f.exc = "ValueError"
          /\ f.cause = "corrupt_file"
                => f.exc \in {"JSONDecodeError", "KeyError", "TypeError"}
    /\ (/\ raised.first # NoFailure
        /\ raised.last # NoFailure
        /\ raised.first.cause # raised.last.cause)
       => <<raised.first.exc, raised.first.msg>> # <<raised.last.exc, raised.last.msg>>

\* after a fit failed for mismatched lengths, a fit fails for too few pairs
\* with an error of the same kind
C10_Witness ==
    /\ raised.first.cause = "mismatched_lengths"
    /\ raised.last.cause = "too_few_pairs"
    /\ raised.first.exc = raised.last.exc

---------------------------------------------------------------------------
(* Claims about the transform's lifecycle *)

IsTransformCall == call.op \in {"transform_point", "transform_points"}

\* the error of lines 258 and 281
NoCalibration == Raise("ValueError", "compute the transformation matrix first")

\* C11: a call of transform_point or transform_points fails with the
\* no-calibration error, and so returns no point, exactly when the instance
\* holds no matrix
C11_AbsentMeansNoCalibration ==
    IsTransformCall => (transformation_matrix = NoneV <=> ret = NoCalibration)

\* transform_points was called on an instance without a matrix and failed
C11_Witness ==
    /\ call.op = "transform_points"
    /\ transformation_matrix = NoneV
    /\ ret = NoCalibration

\* the file is not JSON, or is JSON without a 'matrix' entry
Malformed(file) ==
    /\ path_exists(file)
    /\ \/ IsException(JsonLoad(file.data))
       \/ IsException(GetMatrixItem(JsonLoad(file.data).val))

C13_ConstructionLoadsTheFile ==
    [][call'.op = "__init__" /\ Construct =>
          /\ fs' = fs
          /\ ~IsException(ret') =>
                /\ transformation_matrix' # NoneV <=> path_exists(fs)
                /\ transformation_matrix' # NoneV
                      => fs = FileOf(JsonDump(tolist(transformation_matrix')))]_vars

\* a construction found the file of an earlier fit and loaded its matrix
C13_Witness ==
    /\ call.op = "__init__"
    /\ ret = Return(NoneV)
    /\ fs \in CalibrationFiles
    /\ fs = FileOf(JsonDumpMatrix(transformation_matrix.v))

\* C14: no call on the instance takes its matrix away: a step from a state
\* with a matrix to one without is the construction of the instance anew
C14_LifecycleOneWay ==
    [][transformation_matrix # NoneV /\ transformation_matrix' = NoneV
          => Construct]_vars

\* the file was removed and load was called: the instance kept its matrix
C14_Witness ==
    /\ call.op = "load_transformation_matrix"
    /\ call.file = FileMissing
    /\ transformation_matrix # NoneV

---------------------------------------------------------------------------
(* Claims about persistence and the fitted matrix *)

\* C15: while no other program has written the file since the last
\* successful fit (also a fit after earlier fits), the file holds exactly
\* the text of the matrix that fit returned, and the first load or fresh
\* construction since yields that matrix
C15_FitThenLoadRoundTrip ==
    loaded.fit # NoneV =>
        /\ fs = FileOf(JsonDumpMatrix(loaded.fit.v))
        /\ Len(loaded.loads) >= 1 => loaded.loads[1] = loaded.fit

\* a fresh construction after a successful fit loaded the fitted matrix
C15_Witness ==
    /\ loaded.fit # NoneV
    /\ Len(loaded.loads) = 1
    /\ call.op = "__init__"
    /\ transformation_matrix = loaded.fit

\* C16: two loads after a successful fit, the file untouched, yield the
\* same matrix, the fitted one
C16_LoadIdempotent ==
    Len(loaded.loads) = 2 =>
        /\ loaded.loads[1] = loaded.loads[2]
        /\ loaded.loads[2] = loaded.fit

\* load was called twice after a fit and the instance holds the fitted matrix
C16_Witness ==
    /\ Len(loaded.loads) = 2
    /\ call.op = "load_transformation_matrix"
    /\ transformation_matrix = loaded.fit

\* the points of the unit frame, and those points moved by (10, 20, 30)
UnitFrame == <<<<0, 0, 0>>, <<1, 0, 0>>, <<0, 1, 0>>, <<0, 0, 1>>>>

UnitFrameShifted == <<<<10, 20, 30>>, <<11, 20, 30>>, <<10, 21, 30>>, <<10, 20, 31>>>>

\* C17: the matrix a fit returns for exact correspondences maps every source
\* point onto its target point, and for the unit frame moved by (10, 20, 30)
\* it has the rotation I and the translation (10, 20, 30)
C17_FitReproducesTargets ==
    IsFitCall /\ ret.kind = "return" =>
        /\ \A i \in 1..Len(call.source_points) :
              transform_point(ret.val, call.source_points[i])
                  = Return([j \in 1..3 |-> Fix(call.target_points[i][j])])
        /\ call.source_points = UnitFrame /\ call.target_points = UnitFrameShifted
              => ret.val = NdArray(Embed(Id3, Shift3))

\* the fit of the unit frame moved by (10, 20, 30) returned I and (10, 20, 30)
C17_Witness ==
    /\ IsFitCall
    /\ call.source_points = UnitFrame
    /\ call.target_points = UnitFrameShifted
    /\ ret = Return(NdArray(Embed(Id3, Shift3)))

\* the file holds the text of the matrix the instance holds
InSync == fs = FileOf(JsonDump(tolist(transformation_matrix)))

ReadOnlyOps ==
    {"transform_point", "transform_points", "transform_angle_from_camera_to_robot",
     "calculate_robot_angle_and_compensation", "calculate_3d_coordinates_from_depth"}

\* C19: the point transforms, the angle conversions and the pixel
\* deprojection leave the matrix and the file as they are; save leaves the
\* matrix as it is and the file too when the file holds that matrix; and
\* while the file holds the matrix, a step that changes the matrix is a
\* successful fit
C19_ImmutableBetweenFits ==
    [][/\ (\/ call'.op = "transform_point" /\ TransformPoint
           \/ call'.op = "transform_points" /\ TransformPoints
           \/ call'.op = "transform_angle_from_camera_to_robot" /\ TransformAngle
           \/ call'.op = "calculate_robot_angle_and_compensation" /\ AngleCompensation
           \/ call'.op = "calculate_3d_coordinates_from_depth" /\ DeprojectPixel)
          => transformation_matrix' = transformation_matrix /\ fs' = fs
       /\ call'.op = "save_transformation_matrix" /\ Save
          => /\ transformation_matrix' = transformation_matrix
             /\ transformation_matrix # NoneV /\ InSync => fs' = fs
       /\ (/\ transformation_matrix # NoneV
           /\ InSync
           /\ transformation_matrix' # transformation_matrix)
          => IsFitCall' /\ ret'.kind = "return"]_vars

\* save was called on an instance whose file held its matrix
C19_Witness ==
    /\ call.op = "save_transformation_matrix"
    /\ ret = Return(NoneV)
    /\ transformation_matrix # NoneV
    /\ InSync

\* the array is 4x4 and its bottom row is not [0, 0, 0, 1]
NonUnitBottom(tmv) == IsShape44(tmv) /\ tmv.v[4] # <<0, 0, 0, 1>>

\* C24: a fit that returns leaves, and returns, a 4x4 matrix whose bottom
\* row is [0, 0, 0, 1], whatever the instance held before, so the divisor of
\* the point transforms through it is 1; and the instance comes to hold a
\* matrix with another bottom row only by a load or a construction.
C24_FittedBottomRowUnit ==
    [][/\ (call'.op = "calculate_transformation_matrix" /\ ret'.kind = "return") =>
            /\ IsShape44(transformation_matrix')
            /\ transformation_matrix'.v[4] = <<0, 0, 0, 1>>
            /\ ret'.val = transformation_matrix'
            /\ \A point \in Points :
                  DotHomogeneous(transformation_matrix'.v, point)[4] = 1
       /\ (transformation_matrix' # transformation_matrix
             /\ NonUnitBottom(transformation_matrix')) =>
            call'.op \in {"load_transformation_matrix", "__init__"}]_vars

\* C24 witness: an instance holding a loaded matrix with the bottom row
\* [0, 0, 0, 2] was fitted and now holds a matrix with the unit bottom row.
C24_Witness ==
    /\ IsFitCall
    /\ ret.kind = "return"
    /\ NonUnitBottom(call.held)
    /\ transformation_matrix.v[4] = <<0, 0, 0, 1>>

\* C26: through a 4x4 matrix, with a unit or a non-unit bottom row,
\* transform_points returns for every list of points a list of the same
\* length whose element n is what transform_point returns for point n.
C26_PointsLiftPoint ==
    (call.op = "transform_points" /\ IsShape44(transformation_matrix)) =>
        /\ ret.kind = "return"
        /\ Len(ret.val) = Len(call.points)
        /\ \A n \in 1..Len(call.points) :
              Return(ret.val[n]) = transform_point(transformation_matrix, call.points[n])

\* C27: a fit rejected for point lists of different lengths or of fewer
\* than 4 pairs changes neither the matrix the instance holds (none or a
\* loaded one) nor the file (missing or with its content).  The step of the
\* call is the one that takes the instance and the file to what the call on
\* the point lists of call' leaves.
C27_RejectedFitChangesNothing ==
    [][(call'.op = "calculate_transformation_matrix"
          /\ ret' \in {InvalidInput, InsufficientData}
          /\ \E st \in {calculate_transformation_matrix(
                             transformation_matrix, fs, call'.source_points,
                             call'.target_points, FitLocals0.solved)} :
                /\ ret' = st.ret
                /\ transformation_matrix' = st.tm
                /\ fs' = st.file)
         => /\ transformation_matrix' = transformation_matrix
            /\ fs' = fs
            /\ call'.held = transformation_matrix]_vars

\* C27 witness: an instance holding a matrix, with a file at its path,
\* rejected a fit of 3 pairs and holds the same matrix.
C27_Witness ==
    /\ IsFitCall
    /\ ret = InsufficientData
    /\ Len(call.source_points) = 3
    /\ call.held # NoneV
    /\ transformation_matrix = call.held
    /\ path_exists(fs)

---------------------------------------------------------------------------
(* Specification of the instance shared between threads: one thread fits,  *)
(* one thread transforms, a second program constructs its own instance on  *)
(* the same matrix_path, and the process can be killed and started again.  *)
(* A step is one statement of FitStatements, or one read of                *)
(* self.transformation_matrix by a transform.                              *)

MaxFits == 2

ReaderOps == {"transform_point", "transform_points",
              "transform_angle_from_camera_to_robot"}

\* the reader's call on the array it read
ReaderResult(op, tmv) ==
    CASE op = "transform_point" -> transform_point(tmv, <<1, 2, 3>>)
      [] op = "transform_points" ->
            transform_points(tmv, <<<<1, 2, 3>>, <<0, 0, 0>>>>)
      [] op = "transform_angle_from_camera_to_robot" ->
            transform_angle_from_camera_to_robot(tmv, 30)

\* what the fitting thread w is doing: nothing, filling or about to assign
\* its array (lines 83-86), or another statement of the fit
ReadPhase(w) ==
    IF w.op = "none" THEN "no_fit"
    ELSE IF FitStatements[w.pc] \in {"set_rotation", "set_translation", "assign_self"}
    THEN "building"
    ELSE "fitting"

InitConc ==
    /\ fs \in {FileMissing} \cup CalibrationFiles
    /\ transformation_matrix = load_transformation_matrix(NoneV, fs).tm
    /\ call = NoCall
    /\ ret = NoRet
    /\ raised = NoneRaised
    /\ threads = NoThreads
    /\ published = {transformation_matrix} \ {NoneV}
    /\ loaded = NoLoads
    /\ other = NoOther

\* the fitting thread calls calculate_transformation_matrix with the least
\* number of point pairs it accepts
WriterStart ==
    /\ Alive
    /\ threads.writer.op = "none"
    /\ threads.writer.fits < MaxFits
    /\ \E truth \in Truths :
          threads' = [threads EXCEPT !.writer =
                         [op |-> "calculate_transformation_matrix", pc |-> 1,
                          fits |-> threads.writer.fits + 1, l |-> FitLocals0,
                          source_points |-> SourcePointsOf(MinPoints),
                          target_points |-> TargetPointsOf(truth, MinPoints)]]
    /\ UNCHANGED <<transformation_matrix, fs, call, ret, raised, published, loaded, other>>

\* the fitting thread executes its next statement
WriterStep ==
    /\ Alive
    /\ threads.writer.op # "none"
    /\ LET w == threads.writer
           stmt == FitStatements[w.pc]
       IN  \E choice \in IF stmt = "least_squares"
                         THEN LeastSquares(w.source_points, w.target_points)
                         ELSE {w.l.solved} :
              LET st == FitStep(stmt,
                                [tm |-> transformation_matrix, file |-> fs,
                                 l |-> w.l, ret |-> NoRet],
                                w.source_points, w.target_points, choice)
              IN  /\ transformation_matrix' = st.tm
                  /\ fs' = st.file
                  /\ published' =
                        IF stmt = "least_squares"
                        THEN published \cup {NdArray(Embed(choice.r, choice.tr))}
                        ELSE published
                  /\ threads' = IF st.ret = NoRet
                                THEN [threads EXCEPT !.writer.pc = w.pc + 1,
                                                     !.writer.l = st.l]
                                ELSE [threads EXCEPT !.writer = IdleWriter(w.fits)]
    /\ UNCHANGED <<call, ret, raised, loaded, other>>

\* the transforming thread calls one of the transforms
ReaderStart ==
    /\ Alive
    /\ threads.reader.pc \in {"idle", "done"}
    /\ \E op \in ReaderOps :
          threads' = [threads EXCEPT !.reader =
                         [op |-> op, pc |-> "check_none", used |-> NoneV,
                          at |-> "no_fit", ret |-> NoRet]]
    /\ UNCHANGED <<transformation_matrix, fs, call, ret, raised, published, loaded, other>>

\* `if self.transformation_matrix is None: raise` (lines 101, 257, 280)
ReaderCheck ==
    /\ Alive
    /\ threads.reader.pc = "check_none"
    /\ threads' = [threads EXCEPT !.reader =
                      IF transformation_matrix = NoneV
                      THEN [@ EXCEPT !.pc = "done",
                                     !.ret = ReaderResult(threads.reader.op, NoneV)]
                      ELSE [@ EXCEPT !.pc = "compute"]]
    /\ UNCHANGED <<transformation_matrix, fs, call, ret, raised, published, loaded, other>>

\* the one later read of self.transformation_matrix (lines 119, 264, 287)
\* and the computation on the array read
ReaderCompute ==
    /\ Alive
    /\ threads.reader.pc = "compute"
    /\ threads' = [threads EXCEPT !.reader =
                      [@ EXCEPT !.pc = "done",
                                !.used = transformation_matrix,
                                !.at = ReadPhase(threads.writer),
                                !.ret = ReaderResult(threads.reader.op, transformation_matrix)]]
    /\ UNCHANGED <<transformation_matrix, fs, call, ret, raised, published, loaded, other>>

\* the second program constructs its instance: __init__ reads the file as
\* it is at this moment
LoaderConstruct ==
    /\ Alive
    /\ LET r == load_transformation_matrix(NoneV, fs)
       IN  threads' = [threads EXCEPT !.loader =
                          [op |-> "__init__", tm |-> r.tm, ret |-> r.ret]]
    /\ threads'.loader # threads.loader
    /\ UNCHANGED <<transformation_matrix, fs, call, ret, raised, published, loaded, other>>

\* the process is killed during a fit, which loses what the file object
\* buffered, and started again: __init__ reads the file that is left
CrashRestart ==
    /\ Alive
    /\ threads.writer.op # "none"
    /\ LET r == load_transformation_matrix(NoneV, fs)
       IN  /\ transformation_matrix' = r.tm
           /\ call' = [op |-> "__init__"]
           /\ ret' = r.ret
    /\ threads' = [threads EXCEPT !.writer = IdleWriter(threads.writer.fits),
                                  !.reader = IdleReader]
    /\ UNCHANGED <<fs, raised, published, loaded, other>>

NextConc ==
    \/ WriterStart
    \/ WriterStep
    \/ ReaderStart
    \/ ReaderCheck
    \/ ReaderCompute
    \/ LoaderConstruct
    \/ CrashRestart

SpecConc == InitConc /\ [][NextConc]_vars

---------------------------------------------------------------------------
(* Claims about the shared instance and its file *)

\* C7: during and after a fit the file is missing or holds the complete
\* text of a matrix the instance has held, so that no construction of an
\* instance on that path, in a second program or after a restart, fails
C7_FileAlwaysComplete ==
    /\ \/ fs = FileMissing
       \/ \E m \in published : fs = FileOf(JsonDumpMatrix(m.v))
    /\ ~IsException(threads.loader.ret)
    /\ call.op = "__init__" => ~IsException(ret)

\* C8: a transform that ran to its computation computed with a complete
\* matrix: one the instance held before the fit, or the one a fit solved
\* for, never an array a fit has only partly filled
C8_ReaderSeesWholeMatrix ==
    threads.reader.pc = "done" /\ threads.reader.used # NoneV
        => threads.reader.used \in published

\* a transform read the matrix while the fit was filling its array or about
\* to assign it: it computed with the matrix from before the fit
C8_Witness ==
    /\ threads.reader.pc = "done"
    /\ threads.reader.used \in published
    /\ threads.reader.at = "building"
    /\ threads.writer.op # "none"

---------------------------------------------------------------------------
(* Specification of two instances in one working directory: the first is   *)
(* constructed with the default matrix_path, the second with the default   *)
(* or with a path of its own.                                              *)

\* the default of __init__'s matrix_path (line 7)
DefaultPath == "transformation_matrix.json"

OwnPath == "camera2_matrix.json"

\* the file at the second instance's matrix_path
FileAt(o, file) == IF o.matrix_path = DefaultPath THEN file ELSE o.file

\* the second instance after a call that left it the matrix tmv and its
\* file as file
OtherAfter(tmv, file) ==
    [other EXCEPT !.tm = tmv,
                  !.file = IF other.matrix_path = DefaultPath THEN @ ELSE file]

InitTwo ==
    /\ fs \in {FileMissing} \cup CalibrationFiles
    /\ transformation_matrix = load_transformation_matrix(NoneV, fs).tm
    /\ call = NoCall
    /\ ret = NoRet
    /\ raised = NoneRaised
    /\ threads = NoThreads
    /\ published = {}
    /\ loaded = NoLoads
    /\ \E matrix_path \in {DefaultPath, OwnPath} :
          \E file \in IF matrix_path = DefaultPath THEN {FileMissing}
                      ELSE {FileMissing} \cup CalibrationFiles :
              other = [matrix_path |-> matrix_path,
                       tm |-> load_transformation_matrix(
                                  NoneV, IF matrix_path = DefaultPath
                                         THEN fs ELSE file).tm,
                       file |-> file]

\* the first instance fits
FirstFit ==
    \E truth \in Truths :
        \E source_points \in {SourcePointsOf(MinPoints)},
           target_points \in {TargetPointsOf(truth, MinPoints)} :
            \E choice \in LeastSquares(source_points, target_points) :
                \E st \in {calculate_transformation_matrix(
                               transformation_matrix, fs,
                               source_points, target_points, choice)} :
                    /\ transformation_matrix' = st.tm
                    /\ fs' = st.file
                    /\ call' = [op |-> "calculate_transformation_matrix",
                                instance |-> "first", truth |-> truth]
                    /\ ret' = st.ret
                    /\ UNCHANGED <<raised, threads, published, loaded, other>>

\* the first instance loads
FirstLoad ==
    \E r \in {load_transformation_matrix(transformation_matrix, fs)} :
        /\ transformation_matrix' = r.tm
        /\ call' = [op |-> "load_transformation_matrix", instance |-> "first"]
        /\ ret' = r.ret
        /\ UNCHANGED <<fs, raised, threads, published, loaded, other>>

\* the second instance fits
OtherFit ==
    \E truth \in Truths :
        \E source_points \in {SourcePointsOf(MinPoints)},
           target_points \in {TargetPointsOf(truth, MinPoints)} :
            \E choice \in LeastSquares(source_points, target_points) :
                \E st \in {calculate_transformation_matrix(
                               other.tm, FileAt(other, fs),
                               source_points, target_points, choice)} :
                    /\ other' = OtherAfter(st.tm, st.file)
                    /\ fs' = IF other.matrix_path = DefaultPath THEN st.file ELSE fs
                    /\ call' = [op |-> "calculate_transformation_matrix",
                                instance |-> "other", truth |-> truth]
                    /\ ret' = st.ret
                    /\ UNCHANGED <<transformation_matrix, raised, threads,
                                   published, loaded>>

\* the second instance loads, or is constructed anew on its path
OtherLoad ==
    \E op \in {"load_transformation_matrix", "__init__"} :
        \E r \in {load_transformation_matrix(
                      IF op = "__init__" THEN NoneV ELSE other.tm, FileAt(other, fs))} :
            /\ other' = OtherAfter(r.tm, other.file)
            /\ call' = [op |-> op, instance |-> "other"]
            /\ ret' = r.ret
            /\ UNCHANGED <<transformation_matrix, fs, raised, threads,
                           published, loaded>>

\* either instance converts a point
FirstTransform ==
    \E point \in Points :
        /\ call' = [op |-> "transform_point", instance |-> "first", point |-> point]
        /\ ret' = transform_point(transformation_matrix, point)
        /\ UNCHANGED <<transformation_matrix, fs, raised, threads, published,
                       loaded, other>>

OtherTransform ==
    \E point \in Points :
        /\ call' = [op |-> "transform_point", instance |-> "other", point |-> point]
        /\ ret' = transform_point(other.tm, point)
        /\ UNCHANGED <<transformation_matrix, fs, raised, threads, published,
                       loaded, other>>

NextTwo ==
    \/ FirstFit
    \/ FirstLoad
    \/ FirstTransform
    \/ OtherFit
    \/ OtherLoad
    \/ OtherTransform

SpecTwo == InitTwo /\ [][NextTwo]_vars

\* C18: a fit through the first instance changes neither the matrix the
\* second instance holds nor the matrix the second instance obtains from its
\* next load or construction, also when both have the default matrix_path
C18_InstancesIndependent ==
    [][call'.op = "calculate_transformation_matrix" /\ call'.instance = "first"
          /\ FirstFit
          => /\ other'.tm = other.tm
             /\ load_transformation_matrix(NoneV, FileAt(other', fs')).tm
                  = load_transformation_matrix(NoneV, FileAt(other, fs)).tm]_vars

---------------------------------------------------------------------------
(* Specification of the calibration on a path whose writes can fail: the   *)
(* instance of Spec, without other programs, and fits during which open or *)
(* the flush raises OSError.                                               *)

InitWrite == Init

\* a fit of valid point lists whose save fails
FitWriteFails ==
    /\ Alive
    /\ \E truth \in Truths, fault \in WriteFaults :
        \E source_points \in {SourcePointsOf(MinPoints)},
           target_points \in {TargetPointsOf(truth, MinPoints)} :
            \E choice \in LeastSquares(source_points, target_points) :
                \E st \in {calculate_transformation_matrix_unwritable(
                               transformation_matrix, fs,
                               source_points, target_points, choice, fault)} :
                    /\ transformation_matrix' = st.tm
                    /\ fs' = st.file
                    /\ call' = [op |-> "calculate_transformation_matrix",
                                source_points |-> source_points,
                                target_points |-> target_points,
                                held |-> transformation_matrix]
                    /\ ret' = st.ret
                    /\ UNCHANGED <<raised, loaded, threads, published, other>>

NextWrite ==
    \/ Construct
    \/ Fit
    \/ FitWriteFails
    \/ Load

SpecWrite == InitWrite /\ [][NextWrite]_vars

\* the instance holds what the file holds: neither exists, or the file is
\* the text of the matrix
Agree ==
    IF transformation_matrix = NoneV THEN ~path_exists(fs) ELSE InSync

\* C28: after a fit attempt that raised, the write having failed included,
\* the instance holds the matrix it held before the call; and after every
\* fit attempt the instance holds what the file holds.
C28_FitAllOrNothing ==
    IsFitCall =>
        /\ IsException(ret) => transformation_matrix = call.held
        /\ Agree

---------------------------------------------------------------------------
(* Specification of the streaming wrapper (sick/SickSDK.py, QtVisionSick): *)
(* threads of the program call start_continuous_stream_thread and          *)
(* stop_continuous_stream_thread on one camera in continuous mode, and the *)
(* workers they start run _stream_worker.  A step is one statement on the  *)
(* shared fields; threads holds                                            *)
(*   active  self._streaming_active                                        *)
(*   event   self._stream_stop_event is set                                *)
(*   thread  self._streaming_thread: 0 for None, else the worker's number  *)
(*   w       the workers: where each is in _stream_worker, and whether it  *)
(*           was started with a max_frames                                 *)
(*   c       the calling threads: where each is in start or stop           *)
(*   spawned the number of workers started so far                          *)

\* the number of workers the calls may start in one run
MaxWorkers == 3

\* the threads of the program that call start and stop
Callers == {"c1", "c2"}

Unborn == [pc |-> "unborn", limited |-> FALSE]

\* the positions of a caller inside start_continuous_stream_thread
StartPhases == {"start_clear", "start_set_active", "start_spawn"}

\* threading.Thread.is_alive() of a worker
IsAlive(worker) == worker.pc \notin {"unborn", "dead"}

\* the worker is in _stream_worker and has not yet given up
\* _streaming_active in its finally clause
Running(worker) == worker.pc \in {"loop", "frame", "finally"}

InitStream ==
    /\ transformation_matrix = NoneV
    /\ fs = FileMissing
    /\ call = NoCall
    /\ ret = NoRet
    /\ raised = NoneRaised
    /\ published = {}
    /\ loaded = NoLoads
    /\ other = NoOther
    /\ threads = [active |-> FALSE, event |-> FALSE, thread |-> 0,
                  w |-> [i \in 1..MaxWorkers |-> Unborn],
                  c |-> [k \in Callers |-> "idle"],
                  spawned |-> 0]

\* a step of a call: the shared fields and the caller's position change, the
\* call returns r (NoRet while it goes on)
StreamStep(k, op, next, r) ==
    /\ threads' = next
    /\ call' = [op |-> op, caller |-> k]
    /\ ret' = r
    /\ UNCHANGED <<transformation_matrix, fs, raised, published, loaded, other>>

\* line 320: if self._streaming_active: return False
StartCheck(k) ==
    /\ threads.c[k] = "idle"
    /\ threads.spawned + Cardinality({j \in Callers : threads.c[j] \in StartPhases})
          < MaxWorkers
    /\ IF threads.active
       THEN StreamStep(k, "start_continuous_stream_thread", threads, Return(FALSE))
       ELSE StreamStep(k, "start_continuous_stream_thread",
                       [threads EXCEPT !.c[k] = "start_clear"], NoRet)

\* lines 324-325: self._stream_callback = callback; self._stream_stop_event.clear()
StartClear(k) ==
    /\ threads.c[k] = "start_clear"
    /\ StreamStep(k, "start_continuous_stream_thread",
                  [threads EXCEPT !.event = FALSE, !.c[k] = "start_set_active"], NoRet)

\* line 326: self._streaming_active = True
StartSetActive(k) ==
    /\ threads.c[k] = "start_set_active"
    /\ StreamStep(k, "start_continuous_stream_thread",
                  [threads EXCEPT !.active = TRUE, !.c[k] = "start_spawn"], NoRet)

\* lines 372-376: the worker is created and started, with or without a
\* max_frames
StartSpawn(k) ==
    /\ threads.c[k] = "start_spawn"
    /\ \E limited \in BOOLEAN :
          StreamStep(k, "start_continuous_stream_thread",
                     [threads EXCEPT !.thread = threads.spawned + 1,
                                     !.w[threads.spawned + 1] =
                                         [pc |-> "loop", limited |-> limited],
                                     !.spawned = @ + 1,
                                     !.c[k] = "idle"],
                     Return(TRUE))

\* line 385: if not self._streaming_active: return False
StopCheck(k) ==
    /\ threads.c[k] = "idle"
    /\ IF ~threads.active
       THEN StreamStep(k, "stop_continuous_stream_thread", threads, Return(FALSE))
       ELSE StreamStep(k, "stop_continuous_stream_thread",
                       [threads EXCEPT !.c[k] = "stop_set_event"], NoRet)

\* line 390: self._stream_stop_event.set()
StopSetEvent(k) ==
    /\ threads.c[k] = "stop_set_event"
    /\ StreamStep(k, "stop_continuous_stream_thread",
                  [threads EXCEPT !.event = TRUE, !.c[k] = "stop_is_alive"], NoRet)

\* line 393: if self._streaming_thread and self._streaming_thread.is_alive()
StopIsAlive(k) ==
    /\ threads.c[k] = "stop_is_alive"
    /\ StreamStep(k, "stop_continuous_stream_thread",
                  [threads EXCEPT !.c[k] =
                      IF threads.thread # 0 /\ IsAlive(threads.w[threads.thread])
                      THEN "stop_join" ELSE "stop_clear"],
                  NoRet)

\* lines 394-397: join(timeout=5.0) returns when the worker has ended, or
\* after 5 seconds with the worker alive, and then the call returns False
StopJoin(k) ==
    /\ threads.c[k] = "stop_join"
    /\ IF IsAlive(threads.w[threads.thread])
       THEN StreamStep(k, "stop_continuous_stream_thread",
                       [threads EXCEPT !.c[k] = "idle"], Return(FALSE))
       ELSE StreamStep(k, "stop_continuous_stream_thread",
                       [threads EXCEPT !.c[k] = "stop_clear"], NoRet)

\* lines 399-402: self._streaming_active = False; self._stream_callback = None
StopClear(k) ==
    /\ threads.c[k] = "stop_clear"
    /\ StreamStep(k, "stop_continuous_stream_thread",
                  [threads EXCEPT !.active = FALSE, !.c[k] = "idle"], Return(TRUE))

\* a step of worker i: only the shared fields and its position change
WorkerStep(next) ==
    /\ threads' = next
    /\ UNCHANGED <<transformation_matrix, fs, call, ret, raised, published,
                   loaded, other>>

\* line 336: while not self._stream_stop_event.is_set()
WorkerCheck(i) ==
    /\ threads.w[i].pc = "loop"
    /\ WorkerStep([threads EXCEPT !.w[i].pc =
                      IF threads.event THEN "finally" ELSE "frame"])

\* lines 337-362: one frame and its callback; a worker with a max_frames may
\* have reached it (break)
WorkerFrame(i) ==
    /\ threads.w[i].pc = "frame"
    /\ \E reached \in {FALSE, threads.w[i].limited} :
          WorkerStep([threads EXCEPT !.w[i].pc =
                         IF reached THEN "finally" ELSE "loop"])

\* lines 367-368: finally: self._streaming_active = False
WorkerFinally(i) ==
    /\ threads.w[i].pc = "finally"
    /\ WorkerStep([threads EXCEPT !.active = FALSE, !.w[i].pc = "exit"])

\* line 369 and the return of _stream_worker: the thread ends
WorkerExit(i) ==
    /\ threads.w[i].pc = "exit"
    /\ WorkerStep([threads EXCEPT !.w[i].pc = "dead"])

NextStream ==
    \/ \E k \in Callers : StartCheck(k)
    \/ \E k \in Callers : StartClear(k)
    \/ \E k \in Callers : StartSetActive(k)
    \/ \E k \in Callers : StartSpawn(k)
    \/ \E k \in Callers : StopCheck(k)
    \/ \E k \in Callers : StopSetEvent(k)
    \/ \E k \in Callers : StopIsAlive(k)
    \/ \E k \in Callers : StopJoin(k)
    \/ \E k \in Callers : StopClear(k)
    \/ \E i \in 1..MaxWorkers : WorkerCheck(i)
    \/ \E i \in 1..MaxWorkers : WorkerFrame(i)
    \/ \E i \in 1..MaxWorkers : WorkerFinally(i)
    \/ \E i \in 1..MaxWorkers : WorkerExit(i)

SpecStream == InitStream /\ [][NextStream]_vars

\* C29: at most one worker is running at any time, under every interleaving
\* of start calls, stop calls (a stop whose join timed out included) and
\* workers ending at their max_frames.
C29_AtMostOneWorker ==
    Cardinality({i \in 1..MaxWorkers : Running(threads.w[i])}) <= 1

---------------------------------------------------------------------------
(* Specification of the command processor (main.py, IOSCameraService): the *)
(* MQTT callback puts commands into command_queue, the one thread started  *)
(* by __init__ runs _command_processor.  threads holds                     *)
(*   queue          the commands in command_queue, oldest first            *)
(*   shutdown_event self.shutdown_event is set                             *)
(*   pc, command    where the processor is in its loop, and the command it *)
(*                  has taken from the queue                               *)
(*   arrived        every command put so far, in the order of the puts     *)
(*   handled        every command the processor has executed, in order     *)

\* the number of commands the MQTT callback puts in one run
MaxCommands == 4

\* the commands of lines 51-58; "other" is logged as unknown
Commands == {"start", "status", "shutdown", "other"}

NoCommand == "none"

\* the loop condition, had the processor ignored the event
LoopCondition_Forever(shutdown_event) == TRUE

\* line 45: while not self.shutdown_event.is_set()
LoopCondition(shutdown_event) == ~shutdown_event

InitCommands ==
    /\ transformation_matrix = NoneV
    /\ fs = FileMissing
    /\ call = NoCall
    /\ ret = NoRet
    /\ raised = NoneRaised
    /\ published = {}
    /\ loaded = NoLoads
    /\ other = NoOther
    /\ threads = [queue |-> <<>>, shutdown_event |-> FALSE, pc |-> "while",
                  command |-> NoCommand, arrived |-> <<>>, handled |-> <<>>]

CommandStep(next) ==
    /\ threads' = next
    /\ UNCHANGED <<transformation_matrix, fs, call, ret, raised, published,
                   loaded, other>>

\* lines 423-448: the callback puts the command of a message
mqtt_callback ==
    /\ Len(threads.arrived) < MaxCommands
    /\ \E command \in Commands :
          CommandStep([threads EXCEPT !.queue = Append(@, command),
                                      !.arrived = Append(@, command)])

\* line 45: the loop goes on, or the thread ends
ProcessorWhile ==
    /\ threads.pc = "while"
    /\ CommandStep([threads EXCEPT !.pc =
                      IF LoopCondition(threads.shutdown_event) THEN "get" ELSE "ended"])

\* line 48: get(timeout=1.0) takes the oldest command, or raises queue.Empty
\* after a second with the queue empty (lines 62-64: continue)
ProcessorGet ==
    /\ threads.pc = "get"
    /\ IF threads.queue = <<>>
       THEN CommandStep([threads EXCEPT !.pc = "while"])
       ELSE CommandStep([threads EXCEPT !.command = Head(threads.queue),
                                        !.queue = Tail(@),
                                        !.pc = "handle"])

\* lines 49-60 and 65-66: the command is executed; its handler returns or
\* raises (the exception is logged); 'shutdown' sets the event (line 421)
ProcessorHandle ==
    /\ threads.pc = "handle"
    /\ CommandStep([threads EXCEPT
                      !.handled = Append(@, threads.command),
                      !.shutdown_event = @ \/ threads.command = "shutdown",
                      !.command = NoCommand,
                      !.pc = "while"])

\* line 597: cleanup of the main thread sets the event
Cleanup ==
    /\ ~threads.shutdown_event
    /\ CommandStep([threads EXCEPT !.shutdown_event = TRUE])

NextCommands ==
    \/ mqtt_callback
    \/ ProcessorWhile
    \/ ProcessorGet
    \/ ProcessorHandle
    \/ Cleanup

SpecCommands == InitCommands /\ [][NextCommands]_vars

\* the command the processor holds, as a list
InHand == IF threads.command = NoCommand THEN <<>> ELSE <<threads.command>>

\* C30: the commands executed, the command in hand and the commands still
\* queued are, in this order, the commands in their order of arrival; no
\* command is executed after a 'shutdown', and once 'shutdown' is executed
\* the processor takes no command from the queue, whatever is queued or
\* arrives.
C30_InOrderUntilShutdown ==
    /\ threads.handled \o InHand \o threads.queue = threads.arrived
    /\ \A n \in 1..(Len(threads.handled) - 1) : threads.handled[n] # "shutdown"
    /\ (threads.handled # <<>>
          /\ threads.handled[Len(threads.handled)] = "shutdown") =>
          /\ threads.command = NoCommand
          /\ threads.pc \in {"while", "ended"}

\* C30 witness: 'shutdown' was executed after an earlier command, the
\* processor has ended, and two commands that arrived after it are queued.
C30_Witness ==
    /\ Len(threads.handled) = 2
    /\ threads.handled[2] = "shutdown"
    /\ threads.pc = "ended"
    /\ Len(threads.queue) = 2

=============================================================================
